---- MODULE Spec2Model ----
(***************************************************************************)
(* Model of the RAG core of hackathon-todo (backend/rag): the per-user     *)
(* vector store manager, the embedding service with its rate limiter, the  *)
(* recursive text chunker, the ingestion pipeline and the retriever.       *)
(*                                                                         *)
(* Each component has its own specification over the shared variables:     *)
(*   SpecStore    QdrantManager operations on the vector database          *)
(*   SpecEnsure   two concurrent create_collection callers                 *)
(*   SpecRate     concurrent callers inside EmbeddingService._rate_limit   *)
(*   SpecEmbed    EmbeddingService.embed_texts, statement by statement     *)
(*   SpecIngest   DocumentIngestionPipeline.ingest_pdf                     *)
(*   SpecRetrieve RAGRetriever.retrieve / retrieve_with_fallback           *)
(*   SpecChunk    TextChunker.chunk_text on bounded texts                  *)
(***************************************************************************)
EXTENDS Integers, Sequences, FiniteSets, TLC

VARIABLES
    collections,   \* vector database: names of the existing collections
    points,        \* vector database: collection name -> set of stored points
    storeRet,      \* outcome of the last QdrantManager operation
    storeOps,      \* number of QdrantManager operations issued so far
    pcE,           \* create_collection caller -> position in create_collection
    userE,         \* create_collection caller -> user_id argument
    retE,          \* create_collection caller -> returned collection name
    now,           \* wall clock, time.time(), in ticks
    last_request_time, \* EmbeddingService._last_request_time
    pcR,           \* thread -> position in _rate_limit
    current_time,  \* thread -> local current_time of _rate_limit
    wakeAt,        \* thread -> time its time.sleep() ends
    requests,      \* times at which requests went out to the provider, in order
    texts,         \* embed_texts: the texts argument
    batch_size,    \* embed_texts: the batch_size argument
    pcM,           \* embed_texts: position in the method
    embeddings,    \* embed_texts: the embeddings list being filled
    iM,            \* embed_texts: batch loop variable i (0-based offset)
    jM,            \* embed_texts: fallback loop variable j (0-based offset)
    retried,       \* history: positions of texts sent to the provider one by one
    retryFailed,   \* history: positions whose individual request failed
    failedBatches, \* history: the position sets of the batches whose request failed
    chunk_size,    \* TextChunker.chunk_size
    chunk_overlap, \* TextChunker.chunk_overlap
    text,          \* chunk_text: the text argument
    pcC,           \* chunk_text: "call" before the call, then "returned" or "raised"
    chunks,        \* chunk_text: the returned list of TextChunk
    pagesC,        \* chunk_document_pages: the pages argument
    pcP,           \* chunk_document_pages: position of the call
    chunksP,       \* chunk_document_pages: the returned list of TextChunk
    callV,         \* retrieval: the arguments of the call and its entry point
    pcV,           \* retrieval: position in retrieve_with_fallback / retrieve
    healthV,       \* retrieval: what the pre-flight health check reported
    query_embedding, \* retrieve: the embedded query
    results,       \* retrieve: the hits of qdrant.search
    excV,          \* history: the exception raised inside retrieve, <<>> if none
    retrieval,     \* the RetrievalResult returned
    providerRequests, \* history: requests sent to the embedding provider
    searchCalls,   \* history: client.search calls sent to the vector database
    callI,         \* ingest_pdf: the arguments of the call
    documentI,     \* ingest_pdf: the page texts the uploaded file holds
    pcI,           \* ingest_pdf: position in the pipeline
    parsedI,       \* ingest_pdf: parsed_doc.pages
    chunksI,       \* ingest_pdf: chunks
    embeddingsI,   \* ingest_pdf: embeddings, [] for a failed text
    excI,          \* history: the exception raised inside ingest_pdf, <<>> if none
    ingestion,     \* the IngestionResult returned
    deletion,      \* delete_document: the last call, its result and history
    embedOne,      \* embed_text: the last call and its outcome
    estimate,      \* estimate_chunk_count: the returned count, None before
    sepsC,         \* _split_text: the separators argument
    splitsC,       \* _split_text: the returned fragments
    statsV,        \* get_ingestion_stats / health_check: the last call's outcome
    firstI,        \* history: the collection as an earlier ingestion left it
    records,       \* routes: the document table, status by document id
    pcU,           \* routes: position of the upload request
    httpV          \* routes: the last response

storeVars == <<collections, points, storeRet, storeOps>>
ensureVars == <<pcE, userE, retE>>
rateVars == <<now, last_request_time, pcR, current_time, wakeAt, requests>>
embedVars == <<texts, batch_size, pcM, embeddings, iM, jM, retried, retryFailed,
               failedBatches>>
chunkVars == <<chunk_size, chunk_overlap, text, pcC, chunks, pagesC, pcP, chunksP>>
retrieveVars == <<callV, pcV, healthV, query_embedding, results, excV, retrieval,
                  providerRequests, searchCalls>>
ingestVars == <<callI, documentI, pcI, parsedI, chunksI, embeddingsI, excI, ingestion>>
deleteVars == <<deletion>>
oneVars == <<embedOne>>
otherVars == <<estimate, sepsC, splitsC, statsV, firstI, records, pcU, httpV>>

\* What each component's steps leave alone.
notStore == <<ensureVars, rateVars, embedVars, chunkVars, retrieveVars, ingestVars,
              deleteVars, oneVars, otherVars>>
notEnsure == <<points, storeRet, storeOps, rateVars, embedVars, chunkVars, retrieveVars,
               ingestVars, deleteVars, oneVars, otherVars>>
notRate == <<storeVars, ensureVars, embedVars, chunkVars, retrieveVars, ingestVars,
             deleteVars, oneVars, otherVars>>
notEmbed == <<storeVars, ensureVars, rateVars, chunkVars, retrieveVars, ingestVars,
              deleteVars, oneVars, otherVars>>
notChunk == <<storeVars, ensureVars, rateVars, embedVars, retrieveVars, ingestVars,
              deleteVars, oneVars, otherVars>>
notRetrieve == <<ensureVars, rateVars, embedVars, chunkVars, ingestVars, deleteVars,
                 oneVars, otherVars>>
notIngest == <<ensureVars, rateVars, embedVars, chunkVars, retrieveVars, deleteVars,
               oneVars, otherVars>>
notDelete == <<ensureVars, rateVars, embedVars, chunkVars, retrieveVars, ingestVars,
               oneVars, otherVars>>
notOne == <<storeVars, ensureVars, embedVars, chunkVars, retrieveVars, ingestVars,
            deleteVars, otherVars>>

vars == <<storeVars, ensureVars, rateVars, embedVars, chunkVars, retrieveVars, ingestVars,
          deleteVars, oneVars, otherVars>>

\* ------------------------------------------------------------------------
\* Values
\* ------------------------------------------------------------------------

\* Python's None, where an optional integer (project_id) is expected.
None == -1

Users == {"u1", "u2"}
Docs == {"d1", "d2"}
ChunkIndexes == {0, 1}
ProjectIds == {7, 8}

\* Longest run of QdrantManager operations explored.
MaxStoreOps == 3

\* config.py: qdrant_collection_prefix
collection_prefix == "user_"

\* config.py: rag_top_k
rag_top_k == 3

Min(a, b) == IF a <= b THEN a ELSE b
Max(a, b) == IF a >= b THEN a ELSE b

\* ------------------------------------------------------------------------
\* Text: a Python str is a sequence of one-character strings
\* ------------------------------------------------------------------------

\* The whitespace characters of the modelled alphabet (str.strip, str.isspace).
Whitespace == {" ", "\n"}

\* `not text or not text.strip()`
IsBlank(s) == \A k \in DOMAIN s : s[k] \in Whitespace

RECURSIVE LStrip(_)
LStrip(s) == IF s # <<>> /\ Head(s) \in Whitespace THEN LStrip(Tail(s)) ELSE s

RECURSIVE RStrip(_)
RStrip(s) ==
    IF s # <<>> /\ s[Len(s)] \in Whitespace THEN RStrip(SubSeq(s, 1, Len(s) - 1)) ELSE s

\* str.strip()
Strip(s) == RStrip(LStrip(s))

\* All sequences over S of length at most n.
SeqsUpTo(S, n) == UNION {[1..k -> S] : k \in 0..n}

\* ------------------------------------------------------------------------
\* TextChunker (rag/chunker.py)
\* ------------------------------------------------------------------------

\* Longest text and largest chunk_size explored.
MaxTextLen == 5
MaxChunkSize == 4

\* The characters of the explored texts: a letter, a full stop, a space and a
\* line break.
Alphabet == {"a", ".", " ", "\n"}

\* TextChunker.__init__: the default separators, coarsest first.
separators ==
    << <<"\n", "\n">>, <<"\n">>, <<".", " ">>, <<"!", " ">>, <<"?", " ">>,
       <<";", " ">>, <<",", " ">>, <<" ">>, <<>> >>

\* s[n:] for 0 <= n
From(s, n) == SubSeq(s, n + 1, Len(s))

\* s.startswith(prefix)
StartsWith(s, prefix) ==
    Len(prefix) <= Len(s) /\ SubSeq(s, 1, Len(prefix)) = prefix

\* str.split(sep) for a non-empty sep: the pieces between the successive
\* non-overlapping occurrences of sep, empty pieces included; `cur` is the
\* piece being read.
RECURSIVE SplitFrom(_, _, _)
SplitFrom(s, sep, cur) ==
    IF s = <<>> THEN <<cur>>
    ELSE IF StartsWith(s, sep) THEN <<cur>> \o SplitFrom(From(s, Len(sep)), sep, <<>>)
    ELSE SplitFrom(Tail(s), sep, Append(cur, Head(s)))

Split(s, sep) == SplitFrom(s, sep, <<>>)

\* list(text)
Chars(s) == [k \in DOMAIN s |-> <<s[k]>>]

\* "".join(parts)
RECURSIVE Join(_)
Join(parts) == IF parts = <<>> THEN <<>> ELSE Head(parts) \o Join(Tail(parts))

\* _split_text(text, separators): SplitLoop is its for-loop from the i-th
\* split on (1-based), with the result built so far left out.
RECURSIVE _split_text(_, _, _)
RECURSIVE SplitLoop(_, _, _, _, _)
SplitLoop(splits, i, separator, remaining_separators, size) ==
    IF i > Len(splits) THEN <<>>
    ELSE LET split == splits[i]
             last == (i = Len(splits))
             rest == SplitLoop(splits, i + 1, separator, remaining_separators, size)
         IN  IF split = <<>> THEN rest
             ELSE IF Len(split) <= size
             THEN <<IF last THEN split ELSE split \o separator>> \o rest
             ELSE LET sub_splits == _split_text(split, remaining_separators, size)
                  IN  (IF ~last /\ sub_splits # <<>>
                       THEN [sub_splits EXCEPT ![Len(sub_splits)] = @ \o separator]
                       ELSE sub_splits) \o rest

_split_text(t, seps, size) ==
    IF seps = <<>> THEN Chars(t)
    ELSE IF Head(seps) = <<>> THEN Chars(t)
    ELSE SplitLoop(Split(t, Head(seps)), 1, Head(seps), Tail(seps), size)

\* TextChunk(text, chunk_index, start_char, end_char, metadata)
TextChunk(t, index, start) ==
    [text |-> t, chunk_index |-> index, start_char |-> start,
     end_char |-> start + Len(t)]

\* A faulty test that keeps every chunk.
KeepsChunkAlways(t) == TRUE

\* chunk_text lines 92 and 118: `if chunk_text:` on the stripped text.
KeepsChunk(t) == t # <<>>

\* A faulty seed: the overlap is taken one character short.
OverlapStartShort(t, overlap) == Max(0, Len(t) - overlap) + 1

\* overlap_start = max(0, len(chunk_text) - self.chunk_overlap)
OverlapStart(t, overlap) == Max(0, Len(t) - overlap)

\* The packing loop of chunk_text (lines 85-113) from the k-th split on.  st
\* holds the locals: chunks, chunk_index, start_char, current_chunk (joined),
\* and overlap_start, which is unbound (None) until a chunk has been saved.
\* The result is st at the end of the loop, or raised = TRUE.
RECURSIVE PackLoop(_, _, _, _, _)
PackLoop(splits, k, st, size, overlap) ==
    IF k > Len(splits) THEN st
    ELSE LET split == splits[k]
         IN  IF Len(st.current_chunk) + Len(split) > size /\ st.current_chunk # <<>>
             THEN LET chunk_text == Strip(st.current_chunk)
                      saved == KeepsChunk(chunk_text)
                      overlap_start == IF saved THEN OverlapStart(chunk_text, overlap)
                                       ELSE st.overlap_start
                  IN  IF overlap_start = None
                      \* line 108 reads overlap_start before any assignment:
                      \* UnboundLocalError
                      THEN [st EXCEPT !.raised = TRUE]
                      ELSE PackLoop(splits, k + 1,
                             [raised |-> FALSE,
                              chunks |-> IF saved
                                         THEN Append(st.chunks,
                                                TextChunk(chunk_text, st.chunk_index,
                                                          st.start_char))
                                         ELSE st.chunks,
                              chunk_index |-> IF saved THEN st.chunk_index + 1
                                              ELSE st.chunk_index,
                              start_char |-> IF saved THEN st.start_char + overlap_start
                                             ELSE st.start_char,
                              overlap_start |-> overlap_start,
                              current_chunk |-> From(chunk_text, overlap_start) \o split],
                             size, overlap)
             ELSE PackLoop(splits, k + 1,
                           [st EXCEPT !.current_chunk = @ \o split], size, overlap)

\* chunk_text(text): [raised, chunks].
chunk_text(t, size, overlap) ==
    IF IsBlank(t) THEN [raised |-> FALSE, chunks |-> <<>>]
    ELSE LET st == PackLoop(_split_text(t, separators, size), 1,
                            [raised |-> FALSE, chunks |-> <<>>, chunk_index |-> 0,
                             start_char |-> 0, overlap_start |-> None,
                             current_chunk |-> <<>>],
                            size, overlap)
             last_text == Strip(st.current_chunk)
         IN  IF st.raised THEN [raised |-> TRUE, chunks |-> <<>>]
             ELSE IF KeepsChunk(last_text)
             THEN [raised |-> FALSE,
                   chunks |-> Append(st.chunks,
                                TextChunk(last_text, st.chunk_index, st.start_char))]
             ELSE [raised |-> FALSE, chunks |-> st.chunks]

\* ------------------------------------------------------------------------
\* The embedding provider (client.embeddings.create)
\* ------------------------------------------------------------------------

\* The provider's vector for an input text: non-empty and determined by the
\* text it was sent.
Embed(t) == <<t>>

\* The vectors of the stored points and of the queries.
Vectors == {Embed(<<"a">>), Embed(<<".">>)}

\* ------------------------------------------------------------------------
\* QdrantManager (rag/qdrant_client.py)
\* ------------------------------------------------------------------------

\* A faulty naming that drops the user id.
get_collection_name_shared(user_id) == collection_prefix \o "_documents"

\* f"{self.collection_prefix}{user_id}_documents"
get_collection_name(user_id) == collection_prefix \o user_id \o "_documents"

CollectionNames == {get_collection_name(u) : u \in Users}

\* collection_exists: any(c.name == name for c in get_collections()), and False
\* when listing the collections raises.
collection_exists(name, listOk) == listOk /\ name \in collections

\* Cosine similarity scaled by ten: a stored vector equal to the query scores
\* 10, any other 4.
Score(q, v) == IF q = v THEN 10 ELSE 4

\* RAGRetriever.__init__: score_threshold = 0.5, on the same scale.
score_threshold == 5

\* models.Filter(must=[FieldCondition(key, MatchValue(value)) ...]): every
\* condition must match; a payload without the key does not match.
MatchesFilter(payload, conds) ==
    \A c \in conds : c[1] \in DOMAIN payload /\ payload[c[1]] = c[2]

\* The points of a collection a search may return.
Matching(name, q, thr, conds) ==
    {p \in points[name] : Score(q, p.vector) >= thr /\ MatchesFilter(p.payload, conds)}

\* client.search: the `limit` best matching points, by descending score (ties
\* in any order).
SearchResults(name, q, limit, thr, conds) ==
    LET M == Matching(name, q, thr, conds)
        k == Min(limit, Cardinality(M))
    IN  {s \in [1..k -> M] :
            /\ \A i, j \in 1..k : i < j =>
                  /\ s[i] # s[j]
                  /\ Score(q, s[i].vector) >= Score(q, s[j].vector)
            /\ \A p \in M : (\A i \in 1..k : s[i] # p) =>
                  \A i \in 1..k : Score(q, s[i].vector) >= Score(q, p.vector)}

\* hit -> {"id", "score", "payload"}; `by` is a history field naming the user
\* id the point was written under.
Hit(q, p) == [id |-> p.id, score |-> Score(q, p.vector), payload |-> p.payload, by |-> p.by]

\* f"{document_id}_{chunk.chunk_index}"
ChunkId(document_id, chunk_index) == document_id \o "_" \o ToString(chunk_index)

\* Python truthiness of an optional integer: None and 0 are false.
Truthy(x) == x # None /\ x # 0

\* One point of the batch ingest_pdf builds for a chunk: the id, the vector
\* and the payload, whose project_id key is set only `if project_id:`
\* (ingestion.py:136-156).  The ingested_at timestamp is left out.
Point(user_id, document_id, filename, chunk, vector, project_id) ==
    LET base == [document_id |-> document_id, filename |-> filename,
                 text |-> chunk.text, chunk_index |-> chunk.chunk_index,
                 page_number |-> chunk.page_number,
                 start_char |-> chunk.start_char, end_char |-> chunk.end_char]
    IN  [id |-> ChunkId(document_id, chunk.chunk_index), vector |-> vector,
         by |-> user_id,
         payload |-> IF Truthy(project_id)
                     THEN base @@ [project_id |-> project_id]
                     ELSE base]

\* client.upsert: points with an id already stored are overwritten.
\* A faulty write that inserts instead of upserting: a record whose id is
\* already stored is added beside it.
UpsertedInsertOnly(old, batch) ==
    old \cup {IF \E p \in old : p.id = b.id THEN [b EXCEPT !.id = b.id \o "#"] ELSE b
                 : b \in batch}

Upserted(old, batch) ==
    {p \in old : \A b \in batch : b.id # p.id} \cup batch

\* upsert_vectors(user_id, vectors, payloads, ids): create_collection, then
\* client.upsert.  Each database call may fail (listOk, createOk, upsertOk).
UpsertVectors(user_id, batch, listOk, createOk, upsertOk) ==
    LET name == get_collection_name(user_id)
        exists == collection_exists(name, listOk)
        \* client.create_collection raises when unreachable or when the
        \* collection is already there.
        createRaises == ~exists /\ (~createOk \/ name \in collections)
        created == IF exists \/ createRaises THEN collections
                   ELSE collections \cup {name}
    IN  /\ collections' = created
        /\ IF createRaises \/ ~upsertOk
           THEN /\ points' = points
                /\ storeRet' = [op |-> "upsert", user |-> user_id, raised |-> TRUE,
                                value |-> 0]
           ELSE /\ points' = [points EXCEPT ![name] = Upserted(@, batch)]
                /\ storeRet' = [op |-> "upsert", user |-> user_id, raised |-> FALSE,
                                value |-> Cardinality(batch)]

\* A faulty search without the existence check: client.search raises for a
\* collection that is not there.
SearchUnchecked(user_id, q, limit, conds, listOk, searchOk) ==
    LET name == get_collection_name(user_id)
    IN  /\ UNCHANGED <<collections, points>>
        /\ IF name \notin collections \/ ~searchOk
           THEN storeRet' = [op |-> "search", user |-> user_id, raised |-> TRUE,
                             value |-> <<>>]
           ELSE \E s \in SearchResults(name, q, limit, score_threshold, conds) :
                    storeRet' = [op |-> "search", user |-> user_id, raised |-> FALSE,
                                 value |-> [i \in DOMAIN s |-> Hit(q, s[i])]]

\* search(user_id, query_vector, limit, score_threshold, filter_conditions)
\* A faulty search that creates the user's collection when it is missing,
\* as a write does.
SearchCreating(user_id, q, limit, conds, listOk, searchOk) ==
    LET name == get_collection_name(user_id)
    IN  /\ collections' = collections \cup {name}
        /\ points' = points
        /\ storeRet' = [op |-> "search", user |-> user_id, raised |-> FALSE,
                        value |-> <<>>]

Search(user_id, q, limit, conds, listOk, searchOk) ==
    LET name == get_collection_name(user_id)
    IN  /\ UNCHANGED <<collections, points>>
        /\ IF ~collection_exists(name, listOk)
           THEN storeRet' = [op |-> "search", user |-> user_id, raised |-> FALSE,
                             value |-> <<>>]
           ELSE IF ~searchOk
           THEN storeRet' = [op |-> "search", user |-> user_id, raised |-> TRUE,
                             value |-> <<>>]
           ELSE \E s \in SearchResults(name, q, limit, score_threshold, conds) :
                    storeRet' = [op |-> "search", user |-> user_id, raised |-> FALSE,
                                 value |-> [i \in DOMAIN s |-> Hit(q, s[i])]]

\* A faulty delete whose selector has no filter.
DeleteByDocumentAll(user_id, document_id, listOk, deleteOk) ==
    LET name == get_collection_name(user_id)
    IN  /\ UNCHANGED collections
        /\ points' = [points EXCEPT ![name] = {}]
        /\ storeRet' = [op |-> "delete_by_document", user |-> user_id,
                        raised |-> FALSE, value |-> 1]

\* A faulty delete that raises when no point matches the document.
DeleteByDocumentStrict(user_id, document_id, listOk, deleteOk) ==
    LET name == get_collection_name(user_id)
        matching == {p \in points[name] :
                        MatchesFilter(p.payload, {<<"document_id", document_id>>})}
    IN  /\ UNCHANGED collections
        /\ points' = [points EXCEPT ![name] = @ \ matching]
        /\ storeRet' = [op |-> "delete_by_document", user |-> user_id,
                        raised |-> matching = {}, value |-> 1]

\* delete_by_document(user_id, document_id)
DeleteByDocument(user_id, document_id, listOk, deleteOk) ==
    LET name == get_collection_name(user_id)
    IN  /\ UNCHANGED collections
        /\ IF ~collection_exists(name, listOk)
           THEN /\ points' = points
                /\ storeRet' = [op |-> "delete_by_document", user |-> user_id,
                                raised |-> FALSE, value |-> 0]
           ELSE IF ~deleteOk
           THEN /\ points' = points
                /\ storeRet' = [op |-> "delete_by_document", user |-> user_id,
                                raised |-> TRUE, value |-> 0]
           ELSE /\ points' = [points EXCEPT ![name] =
                                {p \in @ : ~MatchesFilter(p.payload,
                                              {<<"document_id", document_id>>})}]
                /\ storeRet' = [op |-> "delete_by_document", user |-> user_id,
                                raised |-> FALSE, value |-> 1]

\* delete_collection(user_id)
DeleteCollection(user_id, listOk, deleteOk) ==
    LET name == get_collection_name(user_id)
    IN  IF ~collection_exists(name, listOk)
        THEN /\ UNCHANGED <<collections, points>>
             /\ storeRet' = [op |-> "delete_collection", user |-> user_id,
                             raised |-> FALSE, value |-> FALSE]
        ELSE IF ~deleteOk
        THEN /\ UNCHANGED <<collections, points>>
             /\ storeRet' = [op |-> "delete_collection", user |-> user_id,
                             raised |-> TRUE, value |-> FALSE]
        ELSE /\ collections' = collections \ {name}
             /\ points' = [points EXCEPT ![name] = {}]
             /\ storeRet' = [op |-> "delete_collection", user |-> user_id,
                             raised |-> FALSE, value |-> TRUE]

\* The project a document was uploaded under (document d2 has none).
ProjectOf(d) == IF d = "d1" THEN 7 ELSE None

\* The filename a document was uploaded with.
FilenameOf(d) == d \o ".pdf"

\* The chunk with index i of a stored document: one chunk per page.
StoredChunk(i) ==
    [text |-> IF i = 0 THEN <<"a">> ELSE <<".">>, chunk_index |-> i,
     start_char |-> 0, end_char |-> 1, page_number |-> i + 1]

\* The batches an ingestion of document d under user u may write.
Batches(u, d) ==
    {{Point(u, d, FilenameOf(d), StoredChunk(i), v, ProjectOf(d)) : i \in idx} :
        idx \in (SUBSET ChunkIndexes) \ {{}}, v \in Vectors}

\* Number of concurrent callers of create_collection.
NumCallers == 2
Callers == 1..NumCallers

\* No caller has entered create_collection.
EnsureIdle ==
    /\ pcE = [c \in Callers |-> "idle"]
    /\ userE = [c \in Callers |-> ""]
    /\ retE = [c \in Callers |-> ""]

\* embeddings.py: self._min_request_interval = 0.1, in ticks of 50 ms.
min_request_interval == 2

\* Number of threads sharing one EmbeddingService.
NumThreads == 2
Threads == 1..NumThreads

\* The clock is explored up to this tick.
MaxTime == 6

\* EmbeddingService.__init__: _last_request_time = 0.  time.time() is far
\* more than one interval past 0 when the service starts.
RateIdle ==
    /\ now = min_request_interval
    /\ last_request_time = 0
    /\ pcR = [t \in Threads |-> "idle"]
    /\ current_time = [t \in Threads |-> 0]
    /\ wakeAt = [t \in Threads |-> 0]
    /\ requests = <<>>

\* embed_texts has not been called.
EmbedIdle ==
    /\ texts = <<>>
    /\ batch_size = 1
    /\ pcM = "idle"
    /\ embeddings = <<>>
    /\ iM = 0
    /\ jM = 0
    /\ retried = {}
    /\ retryFailed = {}
    /\ failedBatches = {}

\* config.py: rag_chunk_size, rag_chunk_overlap (the defaults of TextChunker).
rag_chunk_size == 1000
rag_chunk_overlap == 200

\* chunk_text has not been called; the chunker has its default configuration.
ChunkIdle ==
    /\ chunk_size = rag_chunk_size
    /\ chunk_overlap = rag_chunk_overlap
    /\ text = <<>>
    /\ pcC = "idle"
    /\ chunks = <<>>
    /\ pagesC = <<>>
    /\ pcP = "idle"
    /\ chunksP = <<>>

\* An Optional[str] is <<>> for None and <<s>> for the string s.
NoneStr == <<>>
Some(x) == <<x>>

\* No retrieval has been requested.
RetrieveIdle ==
    /\ callV = [fallback |-> FALSE, user_id |-> "", query |-> <<>>, project_id |-> None,
                document_id |-> "", top_k |-> None]
    /\ pcV = "idle"
    /\ healthV = "unknown"
    /\ query_embedding = <<>>
    /\ results = <<>>
    /\ excV = NoneStr
    /\ retrieval = [success |-> FALSE, chunks |-> <<>>, citations |-> <<>>,
                    context_text |-> <<>>, error |-> NoneStr]
    /\ providerRequests = 0
    /\ searchCalls = 0

\* IngestionResult(success, document_id, filename, chunks_created,
\* total_pages, error); the metadata of a success is left out.
IngestionResult(success, document_id, filename, chunks_created, total_pages, error) ==
    [success |-> success, document_id |-> document_id, filename |-> filename,
     chunks_created |-> chunks_created, total_pages |-> total_pages, error |-> error]

\* No ingestion has been requested.
IngestIdle ==
    /\ callI = [user_id |-> "", filename |-> "", project_id |-> None, document_id |-> "",
                parser |-> "PDFParser"]
    /\ documentI = <<>>
    /\ pcI = "idle"
    /\ parsedI = <<>>
    /\ chunksI = <<>>
    /\ embeddingsI = <<>>
    /\ excI = NoneStr
    /\ ingestion = IngestionResult(FALSE, "", "", 0, 0, NoneStr)

\* delete_document has not been called.  The record keeps, with the call's
\* arguments and return value: the database fault met, the operation count
\* just after the call, whether the call repeats the successful call made
\* just before it, and the points before the call.
DeleteIdle ==
    deletion = [user_id |-> "", document_id |-> "", returned |-> FALSE, raised |-> FALSE,
                fault |-> "none", at |-> None, repeat |-> FALSE,
                before |-> [n \in {} |-> {}]]

\* embed_text has not been called.
OneIdle ==
    embedOne = [calls |-> 0, text |-> <<>>, raised |-> FALSE, error |-> NoneStr,
                value |-> <<>>]

\* No statistics or health call has been made.  The record keeps the call,
\* the database fault met, the operation count just after the call, whether
\* it raised, and the returned dictionary's entries.
NoStats ==
    [op |-> "none", user_id |-> "", fault |-> "none", at |-> None, raised |-> FALSE,
     status |-> "", points_count |-> 0, qdrant |-> FALSE, embeddings |-> FALSE]

\* No request has been answered.  The record keeps the route, the document
\* id and the current user of the last request, and its HTTP status code
\* (0 while the request is being served).
NoResponse == [route |-> "none", document_id |-> "", user_id |-> "", code |-> 0]

\* The document table row of an id that has no record.
Absent == "absent"

\* Nothing but the components above has been used: no estimate, split or
\* statistics call, no earlier ingestion, no document record, no request.
OtherIdle ==
    /\ estimate = None
    /\ sepsC = <<>>
    /\ splitsC = <<>>
    /\ statsV = NoStats
    /\ firstI = {}
    /\ records = [d \in Docs |-> [status |-> Absent, user_id |-> ""]]
    /\ pcU = "idle"
    /\ httpV = NoResponse

StoreIdle ==
    /\ collections = {}
    /\ points = [n \in CollectionNames |-> {}]
    /\ storeRet = [op |-> "none", user |-> "", raised |-> FALSE, value |-> 0]
    /\ storeOps = 0

StoreCount ==
    /\ storeOps < MaxStoreOps
    /\ storeOps' = storeOps + 1
    /\ UNCHANGED notStore

\* At most one database call of an operation fails: listing the collections
\* ("list"), or the call the operation then makes ("call": create_collection,
\* search, delete), or the final upsert ("upsert").
Faults == {"none", "list", "call", "upsert"}

StoreUpsert ==
    /\ StoreCount
    /\ \E u \in Users, d \in Docs, fault \in Faults :
          \E batch \in Batches(u, d) :
              UpsertVectors(u, batch, fault # "list", fault # "call", fault # "upsert")

StoreSearch ==
    /\ StoreCount
    /\ \E u \in Users, q \in Vectors, limit \in {1, rag_top_k}, fault \in Faults \ {"upsert"} :
          \E conds \in {{}, {<<"project_id", 7>>}, {<<"document_id", "d1">>}} :
              Search(u, q, limit, conds, fault # "list", fault # "call")

StoreDeleteByDocument ==
    /\ StoreCount
    /\ \E u \in Users, d \in Docs, fault \in Faults \ {"upsert"} :
          DeleteByDocument(u, d, fault # "list", fault # "call")

StoreDeleteCollection ==
    /\ StoreCount
    /\ \E u \in Users, fault \in Faults \ {"upsert"} :
          DeleteCollection(u, fault # "list", fault # "call")

InitStore == StoreIdle /\ EnsureIdle /\ RateIdle /\ EmbedIdle /\ ChunkIdle /\ RetrieveIdle /\ IngestIdle /\ DeleteIdle /\ OneIdle /\ OtherIdle

NextStore ==
    \/ StoreUpsert
    \/ StoreSearch
    \/ StoreDeleteByDocument
    \/ StoreDeleteCollection

SpecStore == InitStore /\ [][NextStore]_vars

\* ------------------------------------------------------------------------
\* Two concurrent callers of QdrantManager.create_collection
\* ------------------------------------------------------------------------

\* create_collection line 51 and the collection_exists test of line 53: the
\* caller lists the collections and remembers whether its own is there.
EnsureCheck(c) ==
    /\ pcE[c] = "idle"
    /\ \E u \in Users :
          /\ userE' = [userE EXCEPT ![c] = u]
          /\ pcE' = [pcE EXCEPT ![c] =
                        IF collection_exists(get_collection_name(u), TRUE)
                        THEN "return" ELSE "create"]
    /\ UNCHANGED <<collections, retE>>
    /\ UNCHANGED notEnsure

\* create_collection lines 54-60: client.create_collection.  The database
\* rejects the creation of a collection that already exists, and the
\* exception leaves create_collection.
EnsureCreate(c) ==
    /\ pcE[c] = "create"
    /\ LET name == get_collection_name(userE[c])
       IN  IF name \in collections
           THEN /\ pcE' = [pcE EXCEPT ![c] = "raised"]
                /\ UNCHANGED collections
           ELSE /\ pcE' = [pcE EXCEPT ![c] = "return"]
                /\ collections' = collections \cup {name}
    /\ UNCHANGED <<userE, retE>>
    /\ UNCHANGED notEnsure

\* create_collection line 62: return collection_name
EnsureReturn(c) ==
    /\ pcE[c] = "return"
    /\ retE' = [retE EXCEPT ![c] = get_collection_name(userE[c])]
    /\ pcE' = [pcE EXCEPT ![c] = "done"]
    /\ UNCHANGED <<collections, userE>>
    /\ UNCHANGED notEnsure

\* A caller that returned may call again.
EnsureAgain(c) ==
    /\ pcE[c] = "done"
    /\ pcE' = [pcE EXCEPT ![c] = "idle"]
    /\ retE' = [retE EXCEPT ![c] = ""]
    /\ UNCHANGED <<collections, userE>>
    /\ UNCHANGED notEnsure

InitEnsure == StoreIdle /\ EnsureIdle /\ RateIdle /\ EmbedIdle /\ ChunkIdle /\ RetrieveIdle /\ IngestIdle /\ DeleteIdle /\ OneIdle /\ OtherIdle

NextEnsure ==
    \E c \in Callers :
        \/ EnsureCheck(c)
        \/ EnsureCreate(c)
        \/ EnsureReturn(c)
        \/ EnsureAgain(c)

SpecEnsure == InitEnsure /\ [][NextEnsure]_vars

\* ------------------------------------------------------------------------
\* EmbeddingService._rate_limit under concurrent callers
\* ------------------------------------------------------------------------

\* Longest sequence of outbound requests explored.
MaxRequests == 3

\* The clock advances.
Tick ==
    /\ now < MaxTime
    /\ now' = now + 1
    /\ UNCHANGED <<last_request_time, pcR, current_time, wakeAt, requests>>
    /\ UNCHANGED notRate

\* _rate_limit line 147: current_time = time.time()
RateReadClock(t) ==
    /\ pcR[t] = "idle"
    /\ Len(requests) < MaxRequests
    /\ current_time' = [current_time EXCEPT ![t] = now]
    /\ pcR' = [pcR EXCEPT ![t] = "compare"]
    /\ UNCHANGED <<now, last_request_time, wakeAt, requests>>
    /\ UNCHANGED notRate

\* _rate_limit lines 148-151: time_since_last = current_time -
\* self._last_request_time; when it is under the interval the thread enters
\* time.sleep(interval - time_since_last).
RateCompare(t) ==
    /\ pcR[t] = "compare"
    /\ LET time_since_last == current_time[t] - last_request_time
       IN  IF time_since_last < min_request_interval
           THEN /\ wakeAt' = [wakeAt EXCEPT ![t] =
                                 now + (min_request_interval - time_since_last)]
                /\ pcR' = [pcR EXCEPT ![t] = "sleep"]
           ELSE /\ pcR' = [pcR EXCEPT ![t] = "stamp"]
                /\ UNCHANGED wakeAt
    /\ UNCHANGED <<now, last_request_time, current_time, requests>>
    /\ UNCHANGED notRate

\* time.sleep returns once the requested time has passed.
RateWake(t) ==
    /\ pcR[t] = "sleep"
    /\ now >= wakeAt[t]
    /\ pcR' = [pcR EXCEPT ![t] = "stamp"]
    /\ UNCHANGED <<now, last_request_time, current_time, wakeAt, requests>>
    /\ UNCHANGED notRate

\* _rate_limit line 153: self._last_request_time = time.time(); the caller's
\* next statement sends the request (client.embeddings.create).
RateStamp(t) ==
    /\ pcR[t] = "stamp"
    /\ last_request_time' = now
    /\ requests' = Append(requests, now)
    /\ pcR' = [pcR EXCEPT ![t] = "idle"]
    /\ UNCHANGED <<now, current_time, wakeAt>>
    /\ UNCHANGED notRate

InitRate == StoreIdle /\ EnsureIdle /\ RateIdle /\ EmbedIdle /\ ChunkIdle /\ RetrieveIdle /\ IngestIdle /\ DeleteIdle /\ OneIdle /\ OtherIdle

NextRate ==
    \/ Tick
    \/ \E t \in Threads :
          \/ RateReadClock(t)
          \/ RateCompare(t)
          \/ RateWake(t)
          \/ RateStamp(t)

SpecRate == InitRate /\ [][NextRate]_vars

\* ------------------------------------------------------------------------
\* EmbeddingService.embed_texts (rag/embeddings.py), statement by statement.
\* Positions are 1-based here (Python's index i is position i + 1).
\* ------------------------------------------------------------------------

\* Longest texts list and largest batch_size explored.
MaxTexts == 3
MaxBatch == 3

\* The texts a caller passes: empty, whitespace-only, plain, and padded.
TextPool == {<<>>, <<" ">>, <<"a">>, <<" ", "b">>}

\* batch_size is a plain int argument: negative, zero, up to and beyond the
\* length of the list.
BatchSizes == (0 - 1)..MaxBatch

\* valid_indices: the positions of the non-blank texts, ascending.
RECURSIVE ValidIndices(_, _)
ValidIndices(ts, k) ==
    IF k > Len(ts) THEN <<>>
    ELSE IF ~IsBlank(ts[k]) THEN <<k>> \o ValidIndices(ts, k + 1)
    ELSE ValidIndices(ts, k + 1)

valid_indices == ValidIndices(texts, 1)

\* valid_texts: text.strip() of each non-blank text.
valid_texts == [k \in DOMAIN valid_indices |-> Strip(texts[valid_indices[k]])]

\* A faulty slice index: the position within the batch instead of the
\* position in the input list.
OriginalIndexInBatch(indices, i, j) == j + 1

\* A faulty slice: batch_indices taken from the start of valid_indices for
\* every batch.
OriginalIndexUnsliced(indices, i, j) == indices[j + 1]

\* original_index = batch_indices[j], with batch_indices =
\* valid_indices[i:i + batch_size]
OriginalIndex(indices, i, j) == indices[i + j + 1]

\* len(batch) for batch = valid_texts[i:i + batch_size]
BatchLen(i) == Min(batch_size, Len(valid_texts) - i)

\* The positions (in texts) of the batch at offset i.
BatchPositions(i) == {OriginalIndex(valid_indices, i, j) : j \in 0..(BatchLen(i) - 1)}

\* The for-loop over range(0, len(valid_texts), batch_size) moves on.
NextBatch(i) ==
    IF i + batch_size < Len(valid_texts)
    THEN /\ pcM' = "batch" /\ iM' = i + batch_size
    ELSE /\ pcM' = "done" /\ iM' = i

\* Lines 76-93 and the evaluation of range(...) on line 93.
EmbedStart ==
    /\ pcM = "start"
    /\ IF texts = <<>>
       THEN /\ embeddings' = <<>>
            /\ pcM' = "done"
       ELSE /\ embeddings' = [k \in DOMAIN texts |-> <<>>]
            /\ pcM' = IF valid_texts = <<>> THEN "done"
                      \* range() arg 3 must not be zero: ValueError
                      ELSE IF batch_size = 0 THEN "raised"
                      \* a negative step gives an empty range
                      ELSE IF batch_size < 0 THEN "done"
                      ELSE "batch"
    /\ UNCHANGED <<texts, batch_size, iM, jM, retried, retryFailed, failedBatches>>
    /\ UNCHANGED notEmbed

\* Lines 94-111: one batch request; the provider answers the whole batch or
\* the request fails.
EmbedBatch ==
    /\ pcM = "batch"
    /\ \E ok \in BOOLEAN :
          IF ok
          THEN /\ embeddings' =
                     [k \in DOMAIN embeddings |->
                        IF \E j \in 0..(BatchLen(iM) - 1) :
                               k = OriginalIndex(valid_indices, iM, j)
                        THEN LET j == CHOOSE j \in 0..(BatchLen(iM) - 1) :
                                          k = OriginalIndex(valid_indices, iM, j)
                             IN  Embed(valid_texts[iM + j + 1])
                        ELSE embeddings[k]]
               /\ NextBatch(iM)
               /\ UNCHANGED <<jM, failedBatches>>
          ELSE /\ failedBatches' = failedBatches \cup {BatchPositions(iM)}
               /\ pcM' = "single"
               /\ jM' = 0
               /\ UNCHANGED <<embeddings, iM>>
    /\ UNCHANGED <<texts, batch_size, retried, retryFailed>>
    /\ UNCHANGED notEmbed

\* Lines 113-126: after a failed batch, one request per item of the batch; an
\* item whose own request fails gets the empty vector.
EmbedSingle ==
    /\ pcM = "single"
    /\ LET original_index == OriginalIndex(valid_indices, iM, jM)
       IN  /\ \E ok \in BOOLEAN :
                 /\ embeddings' = [embeddings EXCEPT ![original_index] =
                                      IF ok THEN Embed(valid_texts[iM + jM + 1]) ELSE <<>>]
                 /\ retryFailed' = IF ok THEN retryFailed
                                   ELSE retryFailed \cup {original_index}
           /\ retried' = retried \cup {original_index}
    /\ IF jM + 1 < BatchLen(iM)
       THEN /\ jM' = jM + 1
            /\ UNCHANGED <<pcM, iM>>
       ELSE /\ jM' = jM
            /\ NextBatch(iM)
    /\ UNCHANGED <<texts, batch_size, failedBatches>>
    /\ UNCHANGED notEmbed

\* A call embed_texts(texts, batch_size) with arguments from the bounded sets.
InitEmbed ==
    /\ StoreIdle /\ EnsureIdle /\ RateIdle /\ ChunkIdle /\ RetrieveIdle /\ IngestIdle /\ DeleteIdle /\ OneIdle /\ OtherIdle
    /\ texts \in SeqsUpTo(TextPool, MaxTexts)
    /\ batch_size \in BatchSizes
    /\ pcM = "start"
    /\ embeddings = <<>>
    /\ iM = 0
    /\ jM = 0
    /\ retried = {}
    /\ retryFailed = {}
    /\ failedBatches = {}

NextEmbed ==
    \/ EmbedStart
    \/ EmbedBatch
    \/ EmbedSingle

SpecEmbed == InitEmbed /\ [][NextEmbed]_vars

\* ------------------------------------------------------------------------
\* TextChunker.chunk_text on bounded texts
\* ------------------------------------------------------------------------

\* chunk_text(text) is called on a chunker configured with
\* 0 < chunk_overlap < chunk_size.
ChunkText ==
    /\ pcC = "call"
    /\ LET r == chunk_text(text, chunk_size, chunk_overlap)
       IN  /\ pcC' = IF r.raised THEN "raised" ELSE "returned"
           /\ chunks' = r.chunks
    /\ UNCHANGED <<chunk_size, chunk_overlap, text, pagesC, pcP, chunksP>>
    /\ UNCHANGED notChunk

\* Most pages of one document.
MaxPages == 3

\* The page texts of a document: empty, blank, one chunk, several chunks,
\* and a page that opens with whitespace.
PageTexts ==
    { <<>>, <<" ">>, <<"a">>, <<"a", " ", "a", " ", "a">>, <<"a", ".", "\n", "a">>,
      <<" ", "\n", "a">> }

\* PDFParser.parse: one ParsedPage per page, numbered from 1, its text
\* possibly empty.
ParsedPages(page_texts) ==
    [k \in DOMAIN page_texts |-> [page_number |-> k, text |-> page_texts[k]]]

\* A faulty index: the per-page index of chunk_text is kept.
PageLocalIndex(all_chunks, j) == j - 1

\* chunk_document_pages lines 211-214: global_chunk_index when the j-th chunk
\* of a page is reached, all_chunks holding the chunks of the pages before.
GlobalChunkIndex(all_chunks, j) == Len(all_chunks) + j - 1

\* The loop of chunk_document_pages from the k-th page on: blank pages are
\* skipped, the chunks of a page get the running global index and the page
\* number; an exception of chunk_text propagates.
RECURSIVE ChunkPagesLoop(_, _, _, _, _)
ChunkPagesLoop(pages, k, all_chunks, size, overlap) ==
    IF k > Len(pages) THEN [raised |-> FALSE, chunks |-> all_chunks]
    ELSE IF IsBlank(pages[k].text)
    THEN ChunkPagesLoop(pages, k + 1, all_chunks, size, overlap)
    ELSE LET r == chunk_text(pages[k].text, size, overlap)
             page_chunks ==
                 [j \in DOMAIN r.chunks |->
                    [text |-> r.chunks[j].text,
                     chunk_index |-> GlobalChunkIndex(all_chunks, j),
                     start_char |-> r.chunks[j].start_char,
                     end_char |-> r.chunks[j].end_char,
                     page_number |-> pages[k].page_number]]
         IN  IF r.raised THEN [raised |-> TRUE, chunks |-> <<>>]
             ELSE ChunkPagesLoop(pages, k + 1, all_chunks \o page_chunks, size, overlap)

\* TextChunker.chunk_document_pages(pages, document_id, filename)
chunk_document_pages(pages, size, overlap) == ChunkPagesLoop(pages, 1, <<>>, size, overlap)

\* One call of chunk_document_pages.
ChunkDocumentPages ==
    /\ pcP = "call"
    /\ LET r == chunk_document_pages(pagesC, chunk_size, chunk_overlap)
       IN  /\ pcP' = IF r.raised THEN "raised" ELSE "returned"
           /\ chunksP' = r.chunks
    /\ UNCHANGED <<chunk_size, chunk_overlap, text, pcC, chunks, pagesC>>
    /\ UNCHANGED notChunk

\* A call of chunk_text on a text, or of chunk_document_pages on the pages
\* of a document.
InitChunk ==
    /\ StoreIdle /\ EnsureIdle /\ RateIdle /\ EmbedIdle /\ RetrieveIdle /\ IngestIdle /\ DeleteIdle /\ OneIdle /\ OtherIdle
    /\ chunk_size \in 2..MaxChunkSize
    /\ chunk_overlap \in 1..(chunk_size - 1)
    /\ chunks = <<>>
    /\ chunksP = <<>>
    /\ \/ /\ text \in SeqsUpTo(Alphabet, MaxTextLen)
          /\ pcC = "call"
          /\ pagesC = <<>>
          /\ pcP = "idle"
       \/ /\ text = <<>>
          /\ pcC = "idle"
          /\ pagesC \in {ParsedPages(ts) : ts \in SeqsUpTo(PageTexts, MaxPages)}
          /\ pcP = "call"

NextChunk ==
    \/ ChunkText
    \/ ChunkDocumentPages

SpecChunk == InitChunk /\ [][NextChunk]_vars

\* ------------------------------------------------------------------------
\* TextChunker.estimate_chunk_count and TextChunker._split_text called alone
\* ------------------------------------------------------------------------

\* The variables of the components defined before this section.
baseVars == <<storeVars, ensureVars, rateVars, embedVars, retrieveVars, ingestVars,
              deleteVars, oneVars>>

\* A faulty estimate that rounds down.
estimate_chunk_count_floor(t, size, overlap) ==
    IF t = <<>> THEN 0
    ELSE IF size - overlap <= 0 THEN 1
    ELSE Max(1, Len(t) \div (size - overlap))

\* estimate_chunk_count(text), for a chunker of the given configuration.
estimate_chunk_count(t, size, overlap) ==
    IF t = <<>> THEN 0
    ELSE LET text_length == Len(t)
             effective_chunk_size == size - overlap
         IN  IF effective_chunk_size <= 0 THEN 1
             ELSE Max(1, (text_length + effective_chunk_size - 1)
                            \div effective_chunk_size)

\* One call of estimate_chunk_count.
EstimateChunkCount ==
    /\ pcC = "estimate"
    /\ estimate' = estimate_chunk_count(text, chunk_size, chunk_overlap)
    /\ pcC' = "estimated"
    /\ UNCHANGED <<chunk_size, chunk_overlap, text, chunks, pagesC, pcP, chunksP>>
    /\ UNCHANGED <<sepsC, splitsC, statsV, firstI, records, pcU, httpV>>
    /\ UNCHANGED baseVars

\* One call of _split_text.
SplitText ==
    /\ pcC = "split"
    /\ splitsC' = _split_text(text, sepsC, chunk_size)
    /\ pcC' = "splitted"
    /\ UNCHANGED <<chunk_size, chunk_overlap, text, chunks, pagesC, pcP, chunksP>>
    /\ UNCHANGED <<estimate, sepsC, statsV, firstI, records, pcU, httpV>>
    /\ UNCHANGED baseVars

\* The separator lists a caller passes: the chunker's own, a single
\* separator, and a short list that ends with the character level.
SeparatorLists ==
    { separators, << <<" ">> >>, << <<".", " ">>, <<"\n">>, <<>> >> }

\* A call of estimate_chunk_count on a chunker of any configuration (the
\* constructor accepts an overlap that is not below the size), or a call
\* of _split_text.
InitText ==
    /\ StoreIdle /\ EnsureIdle /\ RateIdle /\ EmbedIdle /\ RetrieveIdle /\ IngestIdle
    /\ DeleteIdle /\ OneIdle
    /\ estimate = None
    /\ splitsC = <<>>
    /\ statsV = NoStats
    /\ firstI = {}
    /\ records = [d \in Docs |-> [status |-> Absent, user_id |-> ""]]
    /\ pcU = "idle"
    /\ httpV = NoResponse
    /\ chunks = <<>>
    /\ pagesC = <<>>
    /\ pcP = "idle"
    /\ chunksP = <<>>
    /\ chunk_size \in 1..MaxChunkSize
    /\ \/ /\ pcC = "estimate"
          /\ chunk_overlap \in 1..MaxChunkSize
          /\ text \in SeqsUpTo({"a", " "}, MaxTextLen)
          /\ sepsC = <<>>
       \/ /\ pcC = "split"
          /\ chunk_overlap = rag_chunk_overlap
          /\ text \in SeqsUpTo(Alphabet, MaxTextLen)
          /\ sepsC \in SeparatorLists

NextText ==
    \/ EstimateChunkCount
    \/ SplitText

SpecText == InitText /\ [][NextText]_vars

\* ------------------------------------------------------------------------
\* RAGRetriever.retrieve and retrieve_with_fallback (rag/retrieval.py)
\* ------------------------------------------------------------------------

\* retrieve line 139: the preview length passed to _truncate_text.
citation_max_length == 200

\* _truncate_text(text, max_length)
_truncate_text(t, max_length) ==
    IF Len(t) <= max_length THEN t
    ELSE SubSeq(t, 1, max_length - 3) \o <<".", ".", ".">>

\* QdrantManager.health_check: True when get_collections answers, False when
\* it raises.
health_check(listOk) == listOk

\* A faulty pre-flight test that never short-circuits.
ShortCircuitsNever(healthy) == FALSE

\* retrieve_with_fallback line 191: `if not self.qdrant.health_check():`
ShortCircuits(healthy) == ~healthy

\* retrieve_with_fallback lines 192-199
UnavailableResult ==
    [success |-> FALSE, chunks |-> <<>>, citations |-> <<>>, context_text |-> <<>>,
     error |-> Some("RAG service unavailable")]

\* A faulty handler that reports the failure as an empty success.
ExceptResultSuccess(message) ==
    [success |-> TRUE, chunks |-> <<>>, citations |-> <<>>, context_text |-> <<>>,
     error |-> NoneStr]

\* retrieve lines 159-168: the except branch, error = str(e)
ExceptResult(message) ==
    [success |-> FALSE, chunks |-> <<>>, citations |-> <<>>, context_text |-> <<>>,
     error |-> Some(message)]

\* retrieve lines 103-108: the filter conditions, a key only for a truthy
\* argument (document_id "" stands for None).
FilterConditions(project_id, document_id) ==
    (IF Truthy(project_id) THEN {<<"project_id", project_id>>} ELSE {})
    \cup (IF document_id # "" THEN {<<"document_id", document_id>>} ELSE {})

\* retrieve line 97: top_k = top_k or self.top_k
TopK(top_k) == IF Truthy(top_k) THEN top_k ELSE rag_top_k

\* retrieve lines 126-134
RetrievedChunk(hit) ==
    [text |-> hit.payload.text, score |-> hit.score,
     document_id |-> hit.payload.document_id, filename |-> hit.payload.filename,
     page_number |-> hit.payload.page_number, chunk_index |-> hit.payload.chunk_index,
     metadata |-> hit.payload]

\* A faulty citation numbered from 0.
CitationZeroBased(k, chunk) ==
    [index |-> k - 1, text |-> _truncate_text(chunk.text, citation_max_length),
     source |-> chunk.filename, page |-> chunk.page_number, score |-> chunk.score]

\* retrieve lines 137-143; index is i + 1 for Python's 0-based i.
Citation(k, chunk) ==
    [index |-> k, text |-> _truncate_text(chunk.text, citation_max_length),
     source |-> chunk.filename, page |-> chunk.page_number, score |-> chunk.score]

\* _build_context_text: one block "[Source k: filename, Page p]\ntext" per
\* chunk, in order, joined by the block separator; the empty sequence is "".
_build_context_text(cs) ==
    [k \in DOMAIN cs |-> [source |-> k, filename |-> cs[k].filename,
                          page |-> cs[k].page_number, text |-> cs[k].text]]

\* retrieve_with_fallback lines 189-201: the pre-flight health check.
RetrieveHealthCheck ==
    /\ pcV = "health"
    /\ \E listOk \in BOOLEAN :
          LET healthy == health_check(listOk)
          IN  /\ healthV' = IF healthy THEN "healthy" ELSE "unhealthy"
              /\ IF ShortCircuits(healthy)
                 THEN /\ retrieval' = UnavailableResult
                      /\ pcV' = "done"
                 ELSE /\ pcV' = "embed"
                      /\ UNCHANGED retrieval
    /\ UNCHANGED <<callV, query_embedding, results, excV, providerRequests, searchCalls>>
    /\ UNCHANGED <<storeVars, notRetrieve>>

\* retrieve line 101: embed_query -> embed_text.  A blank query raises
\* ValueError before any request; otherwise one request goes out, and it
\* fails or returns the vector.  An exception ends in the except branch.
RetrieveEmbed ==
    /\ pcV = "embed"
    /\ IF IsBlank(callV.query)
       THEN /\ excV' = Some("Cannot embed empty text")
            /\ retrieval' = ExceptResult("Cannot embed empty text")
            /\ pcV' = "done"
            /\ UNCHANGED <<query_embedding, providerRequests>>
       ELSE /\ providerRequests' = providerRequests + 1
            /\ \E ok \in BOOLEAN :
                  IF ok
                  THEN /\ query_embedding' = Embed(callV.query)
                       /\ pcV' = "search"
                       /\ UNCHANGED <<excV, retrieval>>
                  ELSE /\ excV' = Some("embedding request failed")
                       /\ retrieval' = ExceptResult("embedding request failed")
                       /\ pcV' = "done"
                       /\ UNCHANGED query_embedding
    /\ UNCHANGED <<callV, healthV, results, searchCalls>>
    /\ UNCHANGED <<storeVars, notRetrieve>>

\* retrieve lines 103-117: build the filter and call qdrant.search.
RetrieveSearch ==
    /\ pcV = "search"
    /\ \E fault \in Faults \ {"upsert"} :
          /\ Search(callV.user_id, query_embedding, TopK(callV.top_k),
                    FilterConditions(callV.project_id, callV.document_id),
                    fault # "list", fault # "call")
          /\ searchCalls' =
                IF collection_exists(get_collection_name(callV.user_id), fault # "list")
                THEN searchCalls + 1 ELSE searchCalls
    /\ IF storeRet'.raised
       THEN /\ excV' = Some("search request failed")
            /\ retrieval' = ExceptResult("search request failed")
            /\ pcV' = "done"
            /\ UNCHANGED results
       ELSE /\ results' = storeRet'.value
            /\ pcV' = "build"
            /\ UNCHANGED <<excV, retrieval>>
    /\ UNCHANGED <<callV, healthV, query_embedding, providerRequests>>
    /\ UNCHANGED <<storeOps, notRetrieve>>

\* retrieve lines 119-157: chunks, citations and context_text of the hits.
RetrieveBuild ==
    /\ pcV = "build"
    /\ LET cs == [k \in DOMAIN results |-> RetrievedChunk(results[k])]
       IN  retrieval' = [success |-> TRUE, chunks |-> cs,
                         citations |-> [k \in DOMAIN cs |-> Citation(k, cs[k])],
                         context_text |-> _build_context_text(cs),
                         error |-> NoneStr]
    /\ pcV' = "done"
    /\ UNCHANGED <<callV, healthV, query_embedding, results, excV, providerRequests,
                   searchCalls>>
    /\ UNCHANGED <<storeVars, notRetrieve>>

\* A chunk whose text is longer than a citation's preview.
LongChunk ==
    [text |-> [i \in 1..(citation_max_length + 2) |-> "a"], chunk_index |-> 2,
     start_char |-> 0, end_char |-> citation_max_length + 2, page_number |-> 3]

\* The documents already ingested when a retrieval starts.
SeedBatches ==
    { {Point("u1", "d1", FilenameOf("d1"), c, Embed(<<"a">>), ProjectOf("d1"))
         : c \in {StoredChunk(i) : i \in ChunkIndexes} \cup {LongChunk}},
      {Point("u1", "d2", FilenameOf("d2"), StoredChunk(0), Embed(<<".">>), ProjectOf("d2"))},
      {Point("u2", "d1", FilenameOf("d1"), StoredChunk(0), Embed(<<"a">>), ProjectOf("d1"))} }

\* The queries a caller passes: empty, whitespace-only and two words.
Queries == {<<>>, <<" ">>, <<"a">>, <<".">>}

\* A call of retrieve or retrieve_with_fallback on a store that holds some of
\* the seed documents.
InitRetrieve ==
    /\ EnsureIdle /\ RateIdle /\ EmbedIdle /\ ChunkIdle /\ IngestIdle /\ DeleteIdle /\ OneIdle /\ OtherIdle
    /\ \E seeds \in SUBSET SeedBatches :
          LET ps == UNION seeds
          IN  /\ collections = {get_collection_name(p.by) : p \in ps}
              /\ points = [n \in CollectionNames |->
                             {p \in ps : get_collection_name(p.by) = n}]
    /\ storeRet = [op |-> "none", user |-> "", raised |-> FALSE, value |-> 0]
    /\ storeOps = 0
    /\ callV \in [fallback : BOOLEAN, user_id : Users, query : Queries,
                   project_id : {None, 0, 7, 8}, document_id : {"", "d1"},
                   top_k : {None, 1}]
    /\ pcV = IF callV.fallback THEN "health" ELSE "embed"
    /\ healthV = "unknown"
    /\ query_embedding = <<>>
    /\ results = <<>>
    /\ excV = NoneStr
    /\ retrieval = [success |-> FALSE, chunks |-> <<>>, citations |-> <<>>,
                    context_text |-> <<>>, error |-> NoneStr]
    /\ providerRequests = 0
    /\ searchCalls = 0

NextRetrieve ==
    \/ RetrieveHealthCheck
    \/ RetrieveEmbed
    \/ RetrieveSearch
    \/ RetrieveBuild

SpecRetrieve == InitRetrieve /\ [][NextRetrieve]_vars

\* ------------------------------------------------------------------------
\* DocumentIngestionPipeline.ingest_pdf (rag/ingestion.py)
\* ------------------------------------------------------------------------

\* ingest_pdf line 75: document_id = document_id or str(uuid.uuid4())
DocumentId(document_id) == IF document_id = "" THEN "generated" ELSE document_id

\* A faulty handler that drops the exception's message.
IngestExceptNoMessage(document_id, filename, message) ==
    IngestionResult(FALSE, document_id, filename, 0, 0, NoneStr)

\* ingest_pdf lines 179-187: the except branch, error = str(e)
IngestExcept(document_id, filename, message) ==
    IngestionResult(FALSE, document_id, filename, 0, 0, Some(message))

\* re.sub(r'\s+', ' ', text): every run of whitespace becomes one space.
RECURSIVE CollapseWhitespace(_)
CollapseWhitespace(t) ==
    IF t = <<>> THEN <<>>
    ELSE IF Head(t) \in Whitespace
    THEN <<" ">> \o CollapseWhitespace(LStrip(Tail(t)))
    ELSE <<Head(t)>> \o CollapseWhitespace(Tail(t))

\* PDFParser._clean_text: collapse the whitespace, then strip.
_clean_text(t) == Strip(CollapseWhitespace(t))

\* The page texts parse returns for a file whose pages hold raw_texts: the
\* pipeline's own PDFParser cleans each page's text, a parser passed to the
\* constructor returns what it likes (here: the raw texts).
ExtractedTexts(parser, raw_texts) ==
    [k \in DOMAIN raw_texts |->
        IF parser = "PDFParser" THEN _clean_text(raw_texts[k]) ELSE raw_texts[k]]

\* ingest_pdf lines 77-89: parse the file; a document without pages is
\* reported as unprocessable.
IngestParse ==
    /\ pcI = "parse"
    /\ LET doc == DocumentId(callI.document_id)
       IN  \E ok \in BOOLEAN :
             IF ~ok
             THEN /\ excI' = Some("Failed to parse PDF")
                  /\ ingestion' = IngestExcept(doc, callI.filename, "Failed to parse PDF")
                  /\ pcI' = "done"
                  /\ UNCHANGED parsedI
             ELSE /\ parsedI' = ParsedPages(ExtractedTexts(callI.parser, documentI))
                  /\ UNCHANGED excI
                  /\ IF documentI = <<>>
                     THEN /\ ingestion' =
                               IngestionResult(FALSE, doc, callI.filename, 0, 0,
                                   Some("No text could be extracted from the PDF"))
                          /\ pcI' = "done"
                     ELSE /\ pcI' = "chunk"
                          /\ UNCHANGED ingestion
    /\ UNCHANGED <<callI, documentI, chunksI, embeddingsI>>
    /\ UNCHANGED <<storeVars, notIngest>>

\* ingest_pdf lines 91-111: chunk the pages.
IngestChunk ==
    /\ pcI = "chunk"
    /\ LET doc == DocumentId(callI.document_id)
           r == chunk_document_pages(parsedI, chunk_size, chunk_overlap)
       IN  IF r.raised
           THEN /\ excI' = Some("overlap_start is not associated with a value")
                /\ ingestion' = IngestExcept(doc, callI.filename,
                                     "overlap_start is not associated with a value")
                /\ pcI' = "done"
                /\ UNCHANGED chunksI
           ELSE /\ chunksI' = r.chunks
                /\ UNCHANGED excI
                /\ IF r.chunks = <<>>
                   THEN /\ ingestion' =
                             IngestionResult(FALSE, doc, callI.filename, 0, Len(parsedI),
                                 Some("No chunks could be created from the document"))
                        /\ pcI' = "done"
                   ELSE /\ pcI' = "embed"
                        /\ UNCHANGED ingestion
    /\ UNCHANGED <<callI, documentI, parsedI, embeddingsI>>
    /\ UNCHANGED <<storeVars, notIngest>>

\* ingest_pdf lines 113-133: embed_texts over the chunk texts.  The service
\* raises, or returns one embedding per chunk, [] for each text whose request
\* failed (any subset may fail).
IngestEmbed ==
    /\ pcI = "embed"
    /\ LET doc == DocumentId(callI.document_id)
       IN  \/ /\ excI' = Some("embedding service failed")
              /\ ingestion' = IngestExcept(doc, callI.filename, "embedding service failed")
              /\ pcI' = "done"
              /\ UNCHANGED embeddingsI
           \/ \E failed \in SUBSET DOMAIN chunksI :
                 /\ embeddingsI' = [j \in DOMAIN chunksI |->
                                      IF j \in failed THEN <<>> ELSE Embed(chunksI[j].text)]
                 /\ UNCHANGED excI
                 /\ IF failed = DOMAIN chunksI
                    THEN /\ ingestion' =
                              IngestionResult(FALSE, doc, callI.filename, 0, Len(parsedI),
                                  Some("Failed to generate embeddings for document"))
                         /\ pcI' = "done"
                    ELSE /\ pcI' = "store"
                         /\ UNCHANGED ingestion
    /\ UNCHANGED <<callI, documentI, parsedI, chunksI>>
    /\ UNCHANGED <<storeVars, notIngest>>

\* A faulty filter that keeps every pair.
AllEmbeddings(embs) == DOMAIN embs

\* ingest_pdf lines 117-123: the positions whose embedding is non-empty.
ValidEmbeddings(embs) == {j \in DOMAIN embs : embs[j] # <<>>}

\* ingest_pdf lines 135-177: build the points of the chunks that have an
\* embedding, upsert them and report the success.
IngestStore ==
    /\ pcI = "store"
    /\ LET doc == DocumentId(callI.document_id)
           valid == ValidEmbeddings(embeddingsI)
           batch == {Point(callI.user_id, doc, callI.filename, chunksI[j], embeddingsI[j],
                           callI.project_id) : j \in valid}
       IN  /\ \E fault \in Faults :
                 UpsertVectors(callI.user_id, batch, fault # "list", fault # "call",
                               fault # "upsert")
           /\ IF storeRet'.raised
              THEN /\ excI' = Some("vector store request failed")
                   /\ ingestion' = IngestExcept(doc, callI.filename,
                                        "vector store request failed")
              ELSE /\ UNCHANGED excI
                   /\ ingestion' =
                         IngestionResult(TRUE, doc, callI.filename, Cardinality(valid),
                                         Len(parsedI), NoneStr)
    /\ pcI' = "done"
    /\ UNCHANGED <<callI, documentI, parsedI, chunksI, embeddingsI>>
    /\ UNCHANGED <<storeOps, notIngest>>

\* The uploaded files: no page, a blank page, one and two pages of text, and
\* pages that open with whitespace.
Documents ==
    { <<>>,
      << <<" ">> >>,
      << <<"a">> >>,
      << <<"a", " ", "a", " ", "a">> >>,
      << <<>>, <<"a", ".", " ", "a">> >>,
      << <<"a">>, <<" ", "\n", "a">> >>,
      << <<" ", " ", " ", " ", "\n", "a">> >> }

\* A call of ingest_pdf, with an injected chunker of a small configuration
\* and the pipeline's own or an injected parser,
\* on an empty store or on one that holds the seed documents.
InitIngest ==
    /\ EnsureIdle /\ RateIdle /\ EmbedIdle /\ RetrieveIdle /\ DeleteIdle /\ OneIdle /\ OtherIdle
    /\ chunk_size \in 2..MaxChunkSize
    /\ chunk_overlap \in 1..(chunk_size - 1)
    /\ text = <<>>
    /\ pcC = "idle"
    /\ chunks = <<>>
    /\ pagesC = <<>>
    /\ pcP = "idle"
    /\ chunksP = <<>>
    /\ \E seeds \in {{}, SeedBatches} :
          LET ps == UNION seeds
          IN  /\ collections = {get_collection_name(p.by) : p \in ps}
              /\ points = [n \in CollectionNames |->
                             {p \in ps : get_collection_name(p.by) = n}]
    /\ storeRet = [op |-> "none", user |-> "", raised |-> FALSE, value |-> 0]
    /\ storeOps = 0
    /\ callI \in [user_id : Users, filename : {FilenameOf(d) : d \in Docs},
                   project_id : {None, 0, 7}, document_id : Docs \cup {""},
                   parser : {"PDFParser", "injected"}]
    /\ documentI \in Documents
    /\ pcI = "parse"
    /\ parsedI = <<>>
    /\ chunksI = <<>>
    /\ embeddingsI = <<>>
    /\ excI = NoneStr
    /\ ingestion = IngestionResult(FALSE, "", "", 0, 0, NoneStr)

NextIngest ==
    \/ IngestParse
    \/ IngestChunk
    \/ IngestEmbed
    \/ IngestStore

SpecIngest == InitIngest /\ [][NextIngest]_vars

\* ------------------------------------------------------------------------
\* DocumentIngestionPipeline.delete_document (rag/ingestion.py)
\* ------------------------------------------------------------------------

\* delete_document(user_id, document_id): delete_by_document inside
\* try/except; True when it returns, False when it raises.
DeleteDocument ==
    /\ storeOps < MaxStoreOps
    /\ storeOps' = storeOps + 1
    /\ \E u \in Users, d \in Docs, fault \in Faults \ {"upsert"} :
          /\ DeleteByDocument(u, d, fault # "list", fault # "call")
          /\ deletion' = [user_id |-> u, document_id |-> d,
                          returned |-> ~storeRet'.raised, raised |-> FALSE,
                          fault |-> fault, at |-> storeOps + 1,
                          repeat |-> /\ deletion.at = storeOps
                                     /\ deletion.user_id = u
                                     /\ deletion.document_id = d
                                     /\ deletion.fault = "none",
                          before |-> points]
    /\ UNCHANGED notDelete

\* An ingestion writes one of the seed documents again.
DeleteReingest ==
    /\ StoreCount
    /\ \E u \in Users, batch \in SeedBatches :
          /\ \A p \in batch : p.by = u
          /\ UpsertVectors(u, batch, TRUE, TRUE, TRUE)

\* Deletions and ingestions' writes, in any order, on a store that holds some
\* of the seed documents.
InitDelete ==
    /\ EnsureIdle /\ RateIdle /\ EmbedIdle /\ ChunkIdle /\ RetrieveIdle /\ IngestIdle
    /\ DeleteIdle /\ OneIdle /\ OtherIdle
    /\ \E seeds \in SUBSET SeedBatches :
          LET ps == UNION seeds
          IN  /\ collections = {get_collection_name(p.by) : p \in ps}
              /\ points = [n \in CollectionNames |->
                             {p \in ps : get_collection_name(p.by) = n}]
    /\ storeRet = [op |-> "none", user |-> "", raised |-> FALSE, value |-> 0]
    /\ storeOps = 0

NextDelete ==
    \/ DeleteDocument
    \/ DeleteReingest

SpecDelete == InitDelete /\ [][NextDelete]_vars

\* ------------------------------------------------------------------------
\* EmbeddingService.embed_text (rag/embeddings.py), one caller at a time
\* ------------------------------------------------------------------------

\* Most embed_text calls explored.
MaxEmbedCalls == 3

\* A faulty test that rejects only the empty string.
EmbedTextRejectsEmpty(t) == t = <<>>

\* embed_text line 46: `if not text or not text.strip()`
EmbedTextRejects(t) == IsBlank(t)

\* _rate_limit run by a single caller: the time at which it returns, after
\* the sleep when the last request is closer than the interval.
RateLimitReturn(t, last) ==
    IF t - last < min_request_interval
    THEN t + (min_request_interval - (t - last))
    ELSE t

\* One call of embed_text: the blank test, then _rate_limit, then the
\* request with the text as given, which the provider answers or fails.
EmbedText ==
    /\ embedOne.calls < MaxEmbedCalls
    /\ \E t \in TextPool :
          IF EmbedTextRejects(t)
          THEN /\ embedOne' = [calls |-> embedOne.calls + 1, text |-> t, raised |-> TRUE,
                               error |-> Some("Cannot embed empty text"), value |-> <<>>]
               /\ UNCHANGED <<now, last_request_time, requests>>
          ELSE LET sent == RateLimitReturn(now, last_request_time)
               IN  /\ sent <= MaxTime
                   /\ now' = sent
                   /\ last_request_time' = sent
                   /\ requests' = Append(requests, sent)
                   /\ \E ok \in BOOLEAN :
                         embedOne' = [calls |-> embedOne.calls + 1, text |-> t,
                                      raised |-> ~ok,
                                      error |-> IF ok THEN NoneStr
                                                ELSE Some("embedding request failed"),
                                      value |-> IF ok THEN Embed(t) ELSE <<>>]
    /\ UNCHANGED <<pcR, current_time, wakeAt>>
    /\ UNCHANGED notOne

\* Time passes between calls.
EmbedTextTick ==
    /\ now < MaxTime
    /\ now' = now + 1
    /\ UNCHANGED <<last_request_time, pcR, current_time, wakeAt, requests, embedOne>>
    /\ UNCHANGED notOne

InitOne ==
    /\ StoreIdle /\ EnsureIdle /\ RateIdle /\ EmbedIdle /\ ChunkIdle /\ RetrieveIdle
    /\ IngestIdle /\ DeleteIdle /\ OneIdle /\ OtherIdle

NextOne ==
    \/ EmbedText
    \/ EmbedTextTick

SpecOne == InitOne /\ [][NextOne]_vars

\* ------------------------------------------------------------------------
\* The pipeline's exposed operations, one call at a time (rag/ingestion.py,
\* rag/retrieval.py, rag/qdrant_client.py)
\* ------------------------------------------------------------------------

\* get_collection_info(user_id): None when collection_exists is False, else
\* the entries read from client.get_collection, which may raise.
get_collection_info(user_id, listOk, infoOk) ==
    LET name == get_collection_name(user_id)
    IN  IF ~collection_exists(name, listOk)
        THEN [raised |-> FALSE, none |-> TRUE, status |-> "", points_count |-> 0]
        ELSE IF ~infoOk
        THEN [raised |-> TRUE, none |-> FALSE, status |-> "", points_count |-> 0]
        ELSE [raised |-> FALSE, none |-> FALSE, status |-> "green",
              points_count |-> Cardinality(points[name])]

\* get_ingestion_stats(user_id): get_collection_info(user_id) or the
\* "not_created" placeholder; an exception of get_collection_info propagates.
get_ingestion_stats(user_id, listOk, infoOk) ==
    LET info == get_collection_info(user_id, listOk, infoOk)
    IN  IF info.raised THEN [raised |-> TRUE, status |-> "", points_count |-> 0]
        ELSE IF info.none
        THEN [raised |-> FALSE, status |-> "not_created", points_count |-> 0]
        ELSE [raised |-> FALSE, status |-> info.status,
              points_count |-> info.points_count]

\* Calls are made one at a time: no retrieval or ingestion is under way.
Sequential == pcV = "idle" /\ pcI = "idle"

\* One call of get_ingestion_stats.
CoreStats ==
    /\ Sequential
    /\ storeOps < MaxStoreOps
    /\ storeOps' = storeOps + 1
    /\ \E u \in Users, fault \in Faults \ {"upsert"} :
          LET r == get_ingestion_stats(u, fault # "list", fault # "call")
          IN  statsV' = [op |-> "stats", user_id |-> u, fault |-> fault,
                         at |-> storeOps + 1, raised |-> r.raised, status |-> r.status,
                         points_count |-> r.points_count, qdrant |-> FALSE,
                         embeddings |-> FALSE]
    /\ UNCHANGED <<collections, points, storeRet>>
    /\ UNCHANGED <<estimate, sepsC, splitsC, firstI, records, pcU, httpV>>
    /\ UNCHANGED <<ensureVars, rateVars, embedVars, chunkVars, retrieveVars, ingestVars,
                   deleteVars, oneVars>>

\* One call of the pipeline's health_check: QdrantManager.health_check, and
\* EmbeddingService.health_check, which embeds the text "test" (through the
\* rate limiter) and turns an exception into False.
CoreHealthCheck ==
    /\ Sequential
    /\ storeOps < MaxStoreOps
    /\ storeOps' = storeOps + 1
    /\ LET sent == RateLimitReturn(now, last_request_time)
       IN  /\ sent <= MaxTime
           /\ now' = sent
           /\ last_request_time' = sent
           /\ requests' = Append(requests, sent)
    /\ \E listOk \in BOOLEAN, embedOk \in BOOLEAN :
          statsV' = [op |-> "health", user_id |-> "",
                     fault |-> IF listOk THEN "none" ELSE "list",
                     at |-> storeOps + 1, raised |-> FALSE, status |-> "",
                     points_count |-> 0, qdrant |-> health_check(listOk),
                     embeddings |-> embedOk]
    /\ UNCHANGED <<collections, points, storeRet>>
    /\ UNCHANGED <<pcR, current_time, wakeAt>>
    /\ UNCHANGED <<estimate, sepsC, splitsC, firstI, records, pcU, httpV>>
    /\ UNCHANGED <<ensureVars, embedVars, chunkVars, retrieveVars, ingestVars,
                   deleteVars, oneVars>>

\* The store's search, an ingestion's write, delete_collection and
\* delete_document, called when no other call is under way.
CoreSearch ==
    /\ Sequential
    /\ StoreCount
    /\ \E u \in Users, fault \in Faults \ {"upsert"} :
          Search(u, Embed(<<"a">>), rag_top_k, {}, fault # "list", fault # "call")

CoreReingest == Sequential /\ DeleteReingest

CoreDeleteCollection == Sequential /\ StoreDeleteCollection

CoreDeleteDocument == Sequential /\ DeleteDocument

\* One retrieval, or one ingestion, or a sequence of the other operations.
InitCore ==
    \/ InitRetrieve
    \/ InitIngest
    \/ InitDelete

NextCore ==
    \/ RetrieveHealthCheck
    \/ RetrieveEmbed
    \/ RetrieveSearch
    \/ RetrieveBuild
    \/ IngestParse
    \/ IngestChunk
    \/ IngestEmbed
    \/ IngestStore
    \/ CoreStats
    \/ CoreHealthCheck
    \/ CoreSearch
    \/ CoreReingest
    \/ CoreDeleteCollection
    \/ CoreDeleteDocument

SpecCore == InitCore /\ [][NextCore]_vars

\* ------------------------------------------------------------------------
\* The document routes (routes/documents.py, models/document.py)
\* ------------------------------------------------------------------------
\* Both handlers are coroutines that call the pipeline without awaiting, so
\* one request is served at a time.  The relational session is a
\* collaborator whose add, get, delete and commit succeed.

\* DocumentStatus
PROCESSING == "processing"
INGESTED == "ingested"
FAILED == "failed"

\* The names of uploaded files, one of them not a PDF name.
UploadNames == {FilenameOf("d1"), "notes.txt"}

\* file.filename.lower().endswith(".pdf")
HasPdfSuffix(filename) == filename \in {FilenameOf(d) : d \in Docs}

\* uuid.uuid4(): an id that no record and no stored vector carries.
FreshIds ==
    {d \in Docs : /\ records[d].status = Absent
                  /\ \A n \in CollectionNames :
                        \A p \in points[n] : p.payload.document_id # d}

\* A faulty status update that marks every finished upload as ingested.
UploadStatusAlways(result) == INGESTED

\* The status upload_document stores once ingest_pdf has returned.
UploadStatus(result) == IF result.success THEN INGESTED ELSE FAILED

\* upload_document up to the call of ingest_pdf: the two validations, the
\* new record committed with status PROCESSING, and the construction of the
\* pipeline, which may raise.
UploadDocument ==
    /\ pcU = "idle"
    /\ \E u \in Users, filename \in UploadNames, tooLarge \in BOOLEAN :
          IF ~HasPdfSuffix(filename) \/ tooLarge
          THEN /\ httpV' = [route |-> "upload", document_id |-> "", user_id |-> u,
                            code |-> 400]
               /\ UNCHANGED <<records, pcU, storeOps, ingestVars>>
          ELSE /\ storeOps < MaxStoreOps
               /\ storeOps' = storeOps + 1
               /\ \E d \in FreshIds, project_id \in {None, 7}, constructed \in BOOLEAN :
                     /\ records' = [records EXCEPT
                                       ![d] = [status |-> PROCESSING, user_id |-> u]]
                     /\ httpV' = [route |-> "upload", document_id |-> d, user_id |-> u,
                                  code |-> 0]
                     /\ callI' = [user_id |-> u, filename |-> filename,
                                  project_id |-> project_id, document_id |-> d,
                                  parser |-> "PDFParser"]
                     /\ IF constructed
                        THEN /\ pcU' = "ingesting"
                             /\ pcI' = "parse"
                             /\ documentI' \in Documents
                        ELSE /\ pcU' = "raised"
                             /\ pcI' = "idle"
                             /\ documentI' = <<>>
               /\ parsedI' = <<>>
               /\ chunksI' = <<>>
               /\ embeddingsI' = <<>>
               /\ excI' = NoneStr
               /\ ingestion' = IngestionResult(FALSE, "", "", 0, 0, NoneStr)
    /\ UNCHANGED <<collections, points, storeRet>>
    /\ UNCHANGED <<estimate, sepsC, splitsC, statsV, firstI>>
    /\ UNCHANGED <<ensureVars, rateVars, embedVars, chunkVars, retrieveVars, deleteVars,
                   oneVars>>

\* upload_document after ingest_pdf has returned, or after the construction
\* of the pipeline has raised: the status update, its commit and the
\* response.  The request's locals are dropped; the result is kept.
UploadRespond ==
    /\ \/ pcU = "ingesting" /\ pcI = "done"
       \/ pcU = "raised"
    /\ LET d == callI.document_id
           stored == IF pcU = "raised" THEN FAILED ELSE UploadStatus(ingestion)
       IN  /\ records' = [records EXCEPT ![d].status = stored]
           /\ httpV' = [httpV EXCEPT !.code = IF stored = INGESTED THEN 200 ELSE 500]
    /\ pcU' = "idle"
    /\ callI' = [user_id |-> "", filename |-> "", project_id |-> None,
                 document_id |-> "", parser |-> "PDFParser"]
    /\ documentI' = <<>>
    /\ pcI' = "idle"
    /\ parsedI' = <<>>
    /\ chunksI' = <<>>
    /\ embeddingsI' = <<>>
    /\ excI' = NoneStr
    /\ UNCHANGED ingestion
    /\ UNCHANGED storeVars
    /\ UNCHANGED <<estimate, sepsC, splitsC, statsV, firstI>>
    /\ UNCHANGED <<ensureVars, rateVars, embedVars, chunkVars, retrieveVars, deleteVars,
                   oneVars>>

\* The delete route: 404 without a record, 403 for another user's record;
\* otherwise the pipeline's delete_document, whose returned boolean is not
\* read, then the removal of the record and the "deleted" response.  An
\* exception of the pipeline's construction gives 500 and keeps the record.
DeleteRoute ==
    /\ pcU = "idle"
    /\ storeOps < MaxStoreOps
    /\ storeOps' = storeOps + 1
    /\ \E u \in Users, d \in Docs :
          LET answer(code) == [route |-> "delete", document_id |-> d, user_id |-> u,
                               code |-> code]
          IN  IF records[d].status = Absent
              THEN /\ httpV' = answer(404)
                   /\ UNCHANGED <<collections, points, storeRet, records>>
              ELSE IF records[d].user_id # u
              THEN /\ httpV' = answer(403)
                   /\ UNCHANGED <<collections, points, storeRet, records>>
              ELSE \E constructed \in BOOLEAN, fault \in Faults \ {"upsert"} :
                     IF ~constructed
                     THEN /\ httpV' = answer(500)
                          /\ UNCHANGED <<collections, points, storeRet, records>>
                     ELSE /\ DeleteByDocument(u, d, fault # "list", fault # "call")
                          /\ records' = [records EXCEPT
                                            ![d] = [status |-> Absent, user_id |-> ""]]
                          /\ httpV' = answer(200)
    /\ UNCHANGED pcU
    /\ UNCHANGED <<estimate, sepsC, splitsC, statsV, firstI>>
    /\ UNCHANGED <<ensureVars, rateVars, embedVars, chunkVars, retrieveVars, ingestVars,
                   deleteVars, oneVars>>

\* The service starts with no records and an empty vector database.
InitRoutes ==
    /\ EnsureIdle /\ RateIdle /\ EmbedIdle /\ ChunkIdle /\ RetrieveIdle /\ IngestIdle
    /\ DeleteIdle /\ OneIdle /\ OtherIdle
    /\ collections = {}
    /\ points = [n \in CollectionNames |-> {}]
    /\ storeRet = [op |-> "none", user |-> "", raised |-> FALSE, value |-> 0]
    /\ storeOps = 0

NextRoutes ==
    \/ UploadDocument
    \/ IngestParse
    \/ IngestChunk
    \/ IngestEmbed
    \/ IngestStore
    \/ UploadRespond
    \/ DeleteRoute

SpecRoutes == InitRoutes /\ [][NextRoutes]_vars

\* ------------------------------------------------------------------------
\* ingest_pdf with its embed_texts call statement by statement, and the same
\* document ingested a second time (rag/ingestion.py, rag/embeddings.py)
\* ------------------------------------------------------------------------

\* ingest_pdf calls embed_texts with the default batch_size (100).  The
\* exploration uses a batch size below the number of chunks of the largest
\* document, so that a document spans several batches.
EmbedBatchSize == 2

\* Documents of the ingestion explored statement by statement; the last has
\* three chunks with three different texts.
PipelineDocuments ==
    Documents \cup { << <<"a">>, <<".">>, <<"a", ".">> >> }

\* Lines 113-115: chunk_texts = [chunk.text for chunk in chunks] and the call
\* of embed_texts.
IngestEmbedCall ==
    /\ pcI = "embed"
    /\ pcI' = "embedding"
    /\ texts' = [j \in DOMAIN chunksI |-> chunksI[j].text]
    /\ batch_size' = EmbedBatchSize
    /\ pcM' = "start"
    /\ embeddings' = <<>>
    /\ iM' = 0
    /\ jM' = 0
    /\ retried' = {}
    /\ retryFailed' = {}
    /\ failedBatches' = {}
    /\ UNCHANGED <<callI, documentI, parsedI, chunksI, embeddingsI, excI, ingestion>>
    /\ UNCHANGED <<storeVars, ensureVars, rateVars, chunkVars, retrieveVars, deleteVars,
                   oneVars, otherVars>>

\* Lines 116-133: embed_texts has returned; the chunks whose embedding is
\* empty are filtered out, and the ingestion fails when none is left.
IngestEmbedReturn ==
    /\ pcI = "embedding"
    /\ pcM = "done"
    /\ embeddingsI' = embeddings
    /\ IF ValidEmbeddings(embeddings) = {}
       THEN /\ ingestion' =
                 IngestionResult(FALSE, DocumentId(callI.document_id), callI.filename, 0,
                     Len(parsedI), Some("Failed to generate embeddings for document"))
            /\ pcI' = "done"
       ELSE /\ pcI' = "store"
            /\ UNCHANGED ingestion
    /\ UNCHANGED <<callI, documentI, parsedI, chunksI, excI>>
    /\ UNCHANGED <<storeVars, notIngest>>

\* The caller ingests the same pages again for the same user with the same
\* document_id, after an ingestion that stored every chunk.  firstI keeps
\* the collection as the first ingestion left it.
IngestAgain ==
    /\ pcI = "done"
    /\ ingestion.success
    /\ firstI = {}
    /\ callI.document_id # ""
    /\ ValidEmbeddings(embeddingsI) = DOMAIN chunksI
    /\ firstI' = points[get_collection_name(callI.user_id)]
    /\ pcI' = "parse"
    /\ parsedI' = <<>>
    /\ chunksI' = <<>>
    /\ embeddingsI' = <<>>
    /\ excI' = NoneStr
    /\ ingestion' = IngestionResult(FALSE, "", "", 0, 0, NoneStr)
    /\ UNCHANGED <<callI, documentI>>
    /\ UNCHANGED <<estimate, sepsC, splitsC, statsV, records, pcU, httpV>>
    /\ UNCHANGED <<storeVars, ensureVars, rateVars, embedVars, chunkVars, retrieveVars,
                   deleteVars, oneVars>>

\* A call of ingest_pdf on an empty vector database.
InitPipeline ==
    /\ EnsureIdle /\ RateIdle /\ EmbedIdle /\ RetrieveIdle /\ DeleteIdle /\ OneIdle /\ OtherIdle
    /\ chunk_size \in 2..MaxChunkSize
    /\ chunk_overlap \in 1..(chunk_size - 1)
    /\ text = <<>>
    /\ pcC = "idle"
    /\ chunks = <<>>
    /\ pagesC = <<>>
    /\ pcP = "idle"
    /\ chunksP = <<>>
    /\ collections = {}
    /\ points = [n \in CollectionNames |-> {}]
    /\ storeRet = [op |-> "none", user |-> "", raised |-> FALSE, value |-> 0]
    /\ storeOps = 0
    /\ callI \in [user_id : Users, filename : {FilenameOf("d1")},
                   project_id : {None, 7}, document_id : {"d1", ""},
                   parser : {"PDFParser"}]
    /\ documentI \in PipelineDocuments
    /\ pcI = "parse"
    /\ parsedI = <<>>
    /\ chunksI = <<>>
    /\ embeddingsI = <<>>
    /\ excI = NoneStr
    /\ ingestion = IngestionResult(FALSE, "", "", 0, 0, NoneStr)

NextPipeline ==
    \/ IngestParse
    \/ IngestChunk
    \/ IngestEmbedCall
    \/ EmbedStart
    \/ EmbedBatch
    \/ EmbedSingle
    \/ IngestEmbedReturn
    \/ IngestStore
    \/ IngestAgain

SpecPipeline == InitPipeline /\ [][NextPipeline]_vars

\* C1: per-user isolation.  Every hit a search scoped to user A returns was
\* written by an upsert issued under user id A; no point written under another
\* user id B is ever returned.
C1_UserIsolation ==
    (storeRet.op = "search" /\ ~storeRet.raised) =>
        \A i \in DOMAIN storeRet.value : storeRet.value[i].by = storeRet.user

\* C1 witness: a search for one user returns a hit while the other user's
\* collection holds points as well.
C1_Witness ==
    /\ storeRet.op = "search"
    /\ Len(storeRet.value) > 0
    /\ \E u \in Users : u # storeRet.user /\ points[get_collection_name(u)] # {}


\* C2: two concurrent create_collection callers for the same brand-new user:
\* neither caller raises, and both return the same collection name.
C2_ConcurrentEnsure ==
    \A c1, c2 \in Callers :
        (c1 # c2 /\ userE[c1] = userE[c2] /\ userE[c1] # "") =>
            /\ pcE[c1] # "raised" /\ pcE[c2] # "raised"
            /\ (pcE[c1] = "done" /\ pcE[c2] = "done") => retE[c1] = retE[c2]

\* C3: any two outbound requests to the embedding provider are issued at
\* least the minimum interval apart, whatever the interleaving of the callers
\* inside _rate_limit.
C3_MinInterval ==
    \A i, j \in DOMAIN requests :
        i < j => requests[j] - requests[i] >= min_request_interval


\* C4: embed_texts with batch_size >= 1 returns one vector per input text, in
\* input order: position k holds the provider's vector for texts[k] (as sent,
\* stripped) unless texts[k] is blank or its individual retry failed, and then
\* it holds the empty vector; every item of a failed batch was retried alone.
C4_PartialFailureRecovery ==
    (pcM = "done" /\ batch_size >= 1) =>
        /\ Len(embeddings) = Len(texts)
        /\ \A k \in DOMAIN texts :
              embeddings[k] = IF IsBlank(texts[k]) \/ k \in retryFailed
                              THEN <<>>
                              ELSE Embed(Strip(texts[k]))
        /\ \A B \in failedBatches : B \subseteq retried

\* C4 witness: a batch of several items failed, one item failed again alone
\* and a sibling of the same batch got its vector from the retry.
C4_Witness ==
    /\ pcM = "done"
    /\ batch_size >= 2
    /\ \E B \in failedBatches :
          \E k1, k2 \in B : /\ k1 \in retryFailed
                            /\ k2 \notin retryFailed
                            /\ embeddings[k2] # <<>>
    /\ \E k \in DOMAIN texts : IsBlank(texts[k])

\* C5: embed_texts never raises, for every texts list and every integer
\* batch_size (0 included) and every pattern of provider failures.
C5_NeverRaises == pcM # "raised"


\* C9: with 0 < chunk_overlap < chunk_size, every chunk chunk_text returns has
\* at most chunk_size characters.
C9_ChunkSizeBound ==
    pcC = "returned" => \A k \in DOMAIN chunks : Len(chunks[k].text) <= chunk_size

\* The last n characters of s (all of s when it is shorter).
LastChars(s, n) == From(s, Max(0, Len(s) - n))

\* C10 as claimed: every chunk after the first begins with the last
\* min(chunk_overlap, len(predecessor)) characters of the chunk before it.
C10_OverlapExact ==
    pcC = "returned" =>
        \A k \in DOMAIN chunks : k > 1 =>
            StartsWith(chunks[k].text, LastChars(chunks[k - 1].text, chunk_overlap))

\* C10 amended: every chunk after the first begins with the last
\* min(chunk_overlap, len(predecessor)) characters of the chunk before it
\* once the leading whitespace of that tail is removed (the tail never is all
\* whitespace, so the shared text is not empty).
C10_OverlapStripped ==
    pcC = "returned" =>
        \A k \in DOMAIN chunks : k > 1 =>
            /\ LStrip(LastChars(chunks[k - 1].text, chunk_overlap)) # <<>>
            /\ StartsWith(chunks[k].text,
                          LStrip(LastChars(chunks[k - 1].text, chunk_overlap)))

\* C10 witness: a second chunk whose carried-over tail started with
\* whitespace, and a chunk that carries a full chunk_overlap characters.
C10_Witness ==
    /\ pcC = "returned"
    /\ Len(chunks) >= 2
    /\ \E k \in DOMAIN chunks :
          /\ k > 1
          /\ Head(LastChars(chunks[k - 1].text, chunk_overlap)) \in Whitespace
          /\ chunk_overlap >= 2


\* C6: ingest_pdf never lets an exception escape: whether the parser, the
\* chunker, the embedding service or the vector store raises, the call ends
\* with an IngestionResult, and when an exception was raised the result has
\* success = false, chunks_created = 0 and error equal to the exception's
\* message.
C6_IngestNeverRaises ==
    /\ pcI # "raised"
    /\ excI # NoneStr =>
          /\ pcI = "done"
          /\ ingestion.success = FALSE
          /\ ingestion.chunks_created = 0
          /\ ingestion.error = excI

\* C6 witness: the store write failed after chunks were embedded, and the
\* call returned.
C6_Witness ==
    /\ pcI = "done"
    /\ excI = Some("vector store request failed")
    /\ \E j \in DOMAIN embeddingsI : embeddingsI[j] # <<>>
    /\ storeRet.op = "upsert"


\* C7: when the pre-flight health check of retrieve_with_fallback reports
\* the store unhealthy, the call returns success = false with the "service
\* unavailable" error and empty chunks, citations and context_text, having
\* sent no request to the embedding provider and no search to the store; it
\* does not raise.
C7_UnhealthyShortCircuit ==
    healthV = "unhealthy" =>
        /\ pcV = "done"
        /\ retrieval = [success |-> FALSE, chunks |-> <<>>, citations |-> <<>>,
                        context_text |-> <<>>, error |-> Some("RAG service unavailable")]
        /\ providerRequests = 0
        /\ searchCalls = 0
        /\ storeRet.op = "none"

\* C7 witness: retrieve_with_fallback returned after an unhealthy check for a
\* user whose collection holds matching points.
C7_Witness ==
    /\ healthV = "unhealthy"
    /\ pcV = "done"
    /\ ~IsBlank(callV.query)
    /\ points[get_collection_name(callV.user_id)] # {}

\* C8: a retrieval in which the embedding of the query (an empty or blank
\* query included) or the store's search raised returns a RetrievalResult
\* with success = false, the error set to the exception's message and empty
\* chunks, citations and context_text; no call ends with an escaped exception.
C8_FailuresBecomeResults ==
    /\ pcV # "raised"
    /\ excV # NoneStr =>
          /\ pcV = "done"
          /\ retrieval.success = FALSE
          /\ retrieval.error = excV
          /\ retrieval.chunks = <<>>
          /\ retrieval.citations = <<>>
          /\ retrieval.context_text = <<>>
    /\ (pcV = "done" /\ IsBlank(callV.query) /\ healthV # "unhealthy") =>
          excV = Some("Cannot embed empty text")

\* C8 witness: the search raised, after a healthy pre-flight check, for a
\* user whose collection holds points.
C8_Witness ==
    /\ pcV = "done"
    /\ callV.fallback
    /\ excV = Some("search request failed")
    /\ searchCalls = 1
    /\ points[get_collection_name(callV.user_id)] # {}


\* C11: chunk indices are contiguous: the chunk_index values of the list
\* chunk_text returns, and of the list chunk_document_pages returns across
\* all pages, are 0, 1, ..., N-1 in order; they do not restart at a page
\* boundary and skip no value where a blank chunk or page was dropped.
C11_ContiguousIndices ==
    /\ pcC = "returned" => \A k \in DOMAIN chunks : chunks[k].chunk_index = k - 1
    /\ pcP = "returned" => \A k \in DOMAIN chunksP : chunksP[k].chunk_index = k - 1

\* C11 witness: chunk_document_pages returned chunks of two pages that have a
\* blank page between them, the first page giving more than one chunk.
C11_Witness ==
    /\ pcP = "returned"
    /\ Len(pagesC) = 3
    /\ IsBlank(pagesC[2].text)
    /\ \E i, j, k \in DOMAIN chunksP :
          /\ i < j /\ j < k
          /\ chunksP[i].page_number = 1
          /\ chunksP[j].page_number = 1
          /\ chunksP[k].page_number = 3


\* C12: project scoping: when retrieve is given a project id p (any integer),
\* every chunk it returns was ingested with project_id = p; chunks of
\* another project or of no project are not returned.
C12_ProjectScoping ==
    (pcV = "done" /\ retrieval.success /\ callV.project_id # None) =>
        \A k \in DOMAIN retrieval.chunks :
            /\ "project_id" \in DOMAIN retrieval.chunks[k].metadata
            /\ retrieval.chunks[k].metadata.project_id = callV.project_id


\* The points of document d in user u's collection, in the store function ps.
DocumentPoints(ps, u, d) ==
    {p \in ps[get_collection_name(u)] : p.payload.document_id = d}

\* C13: document deletion is idempotent: with the database answering,
\* delete_document called a second time in a row with the same arguments, or
\* for a document or user that has no vectors, returns True, and leaves the
\* store as the call before it left it.
C13_DeleteIdempotent ==
    (deletion.at = storeOps /\ deletion.fault = "none") =>
        /\ deletion.returned
        /\ DocumentPoints(points, deletion.user_id, deletion.document_id) = {}
        /\ (deletion.repeat
             \/ DocumentPoints(deletion.before, deletion.user_id,
                               deletion.document_id) = {})
           => points = deletion.before

\* C13 witness: a second delete_document in a row, the first having removed
\* points and other points of the user remaining.
C13_Witness ==
    /\ deletion.at = storeOps
    /\ deletion.repeat
    /\ deletion.fault = "none"
    /\ storeOps = MaxStoreOps
    /\ points[get_collection_name(deletion.user_id)] # {}

\* C14: delete_document never raises, and it returns True only when the
\* filtered delete was carried out or the document had nothing to delete:
\* when the database is unreachable or errors and the document's vectors
\* are still stored, it returns False.
C14_DeleteReportsFailure ==
    /\ ~deletion.raised
    /\ (deletion.at = storeOps /\ deletion.returned) =>
          DocumentPoints(points, deletion.user_id, deletion.document_id) = {}


\* C15: a search for a user whose collection does not exist returns the empty
\* sequence, raises nothing and creates no collection.
C15_SearchWithoutCollection ==
    [][(/\ storeOps' = storeOps + 1
        /\ storeRet'.op = "search"
        /\ get_collection_name(storeRet'.user) \notin collections)
       => /\ ~storeRet'.raised
          /\ storeRet'.value = <<>>
          /\ collections' = collections
          /\ points' = points]_vars

\* C15 witness: a search returned for a user without a collection while
\* another user's collection holds points.
C15_Witness ==
    /\ storeRet.op = "search"
    /\ get_collection_name(storeRet.user) \notin collections
    /\ \E n \in collections : points[n] # {}


\* C16: citations parallel the chunks: in every successful RetrievalResult
\* citations and chunks have the same length, the k-th citation (k from 1)
\* has index k and the filename and page of the k-th chunk, and its preview
\* is the chunk text when that has at most 200 characters and otherwise no
\* longer than 200 characters plus the "..." marker.
C16_CitationsParallelChunks ==
    (pcV = "done" /\ retrieval.success) =>
        /\ Len(retrieval.citations) = Len(retrieval.chunks)
        /\ \A k \in DOMAIN retrieval.citations :
              LET c == retrieval.citations[k]
                  chunk == retrieval.chunks[k]
              IN  /\ c.index = k
                  /\ c.source = chunk.filename
                  /\ c.page = chunk.page_number
                  /\ Len(c.text) <= citation_max_length + 3
                  /\ Len(chunk.text) <= citation_max_length => c.text = chunk.text

\* C16 witness: a successful retrieval of several chunks, one of them longer
\* than the preview, so that its citation is cut and ends with the marker.
C16_Witness ==
    /\ pcV = "done"
    /\ retrieval.success
    /\ Len(retrieval.chunks) = 3
    /\ \E k \in DOMAIN retrieval.chunks :
          /\ Len(retrieval.chunks[k].text) > citation_max_length
          /\ retrieval.citations[k].text # retrieval.chunks[k].text
          /\ retrieval.citations[k].text[Len(retrieval.citations[k].text)] = "."


\* C17: embed_text rejects blank input before any side effect: for an empty
\* or whitespace-only text the call raises the "Cannot embed empty text"
\* error, sends no request to the provider and leaves the rate limiter's
\* last-request timestamp as it was.
C17_BlankRejectedFirst ==
    [][(embedOne'.calls = embedOne.calls + 1 /\ IsBlank(embedOne'.text))
       => /\ embedOne'.raised
          /\ embedOne'.error = Some("Cannot embed empty text")
          /\ requests' = requests
          /\ last_request_time' = last_request_time
          /\ now' = now]_vars

\* C17 witness: a whitespace-only text was rejected after an earlier call
\* had sent a request and stamped the limiter.
C17_Witness ==
    /\ embedOne.text = <<" ">>
    /\ embedOne.raised
    /\ requests # <<>>
    /\ last_request_time > 0


\* C18: ingestion keeps only embedded chunks: ingest_pdf returns success only
\* when some chunk got a non-empty vector and the upsert completed, and then
\* chunks_created is the number of chunks with a non-empty vector, which is
\* the number of records written; when every vector is empty, or the upsert
\* fails after the embedding, the result has success = false and
\* chunks_created = 0.
C18_OnlyEmbeddedChunks ==
    pcI = "done" =>
        LET embedded == {j \in DOMAIN embeddingsI : embeddingsI[j] # <<>>}
            name == get_collection_name(callI.user_id)
        IN  /\ ingestion.success =>
                  /\ embedded # {}
                  /\ storeRet.op = "upsert" /\ ~storeRet.raised
                  /\ ingestion.chunks_created = Cardinality(embedded)
                  /\ storeRet.value = Cardinality(embedded)
                  /\ \A j \in DOMAIN chunksI :
                        (j \in embedded) <=>
                        (\E p \in points[name] :
                            /\ p.id = ChunkId(ingestion.document_id, chunksI[j].chunk_index)
                            /\ p.vector = embeddingsI[j]
                            /\ p.payload.text = chunksI[j].text)
            /\ (embeddingsI # <<>> /\ embedded = {}) =>
                  /\ ~ingestion.success
                  /\ ingestion.chunks_created = 0
                  /\ storeRet.op = "none"
            /\ storeRet.raised =>
                  /\ ~ingestion.success
                  /\ ingestion.chunks_created = 0

\* C18 witness: a successful ingestion on an empty store in which one chunk's
\* embedding failed and two others were written.
C18_Witness ==
    /\ pcI = "done"
    /\ ingestion.success
    /\ ingestion.chunks_created = 2
    /\ \E j \in DOMAIN embeddingsI : embeddingsI[j] = <<>>
    /\ Cardinality(points[get_collection_name(callI.user_id)]) = 2


\* C19: for a textless document (no page, or every page's text empty or
\* whitespace-only) ingest_pdf fails with the "No text could be extracted"
\* reason, not with the "No chunks could be created" reason, and calls
\* neither the embedding service nor the vector store.
C19_TextlessReason ==
    (/\ pcI = "done"
     /\ excI = NoneStr
     /\ \A k \in DOMAIN documentI : IsBlank(documentI[k])) =>
        /\ ~ingestion.success
        /\ ingestion.error = Some("No text could be extracted from the PDF")
        /\ embeddingsI = <<>>
        /\ storeRet.op = "none"


\* C20: chunk_text of an empty or whitespace-only string returns the empty
\* list and raises nothing, and no chunk returned for any input, by
\* chunk_text or by chunk_document_pages, has empty or whitespace-only text.
C20_NoBlankChunks ==
    /\ (pcC \in {"returned", "raised"} /\ IsBlank(text)) =>
          (pcC = "returned" /\ chunks = <<>>)
    /\ pcC = "returned" => \A k \in DOMAIN chunks : ~IsBlank(chunks[k].text)
    /\ pcP = "returned" => \A k \in DOMAIN chunksP : ~IsBlank(chunksP[k].text)

\* C20 witness: chunk_text returned the empty list for a text of several
\* whitespace characters.
C20_Witness ==
    /\ pcC = "returned"
    /\ Len(text) >= 2
    /\ IsBlank(text)
    /\ chunks = <<>>


\* The least n with n * d >= x, for d > 0.
CeilDiv(x, d) == CHOOSE n \in 0..x : n * d >= x /\ (n = 0 \/ (n - 1) * d < x)

\* C21: estimate_chunk_count returns 0 for the empty string; for a non-empty
\* text it returns max(1, ceil(len(text) / (chunk_size - chunk_overlap)))
\* when chunk_size > chunk_overlap and 1 when chunk_size <= chunk_overlap.
C21_EstimateCount ==
    pcC = "estimated" =>
        estimate = IF text = <<>> THEN 0
                   ELSE IF chunk_size > chunk_overlap
                   THEN Max(1, CeilDiv(Len(text), chunk_size - chunk_overlap))
                   ELSE 1

\* C21 witness: an estimate above 1 for a length that is not a multiple of
\* the effective size, so that the rounding up shows.
C21_Witness ==
    /\ pcC = "estimated"
    /\ chunk_size > chunk_overlap
    /\ estimate >= 2
    /\ Len(text) % (chunk_size - chunk_overlap) # 0

\* C23: the recursive splitter loses no information: for every text and
\* separator list the fragments of _split_text, concatenated in order, are
\* the text, with leading, trailing and consecutive separators kept.
C23_SplitLossless ==
    pcC = "splitted" => Join(splitsC) = text


\* C24: closing an empty chunk is skipped without error: when the pieces
\* gathered at an overflow are whitespace-only, chunk_text emits no chunk for
\* them and goes on, so that a call on a text with non-blank content returns
\* normally, also when no chunk was closed before.
C24_EmptyCloseSkipped ==
    (pcC \in {"returned", "raised"} /\ ~IsBlank(text)) => pcC = "returned"


\* C26: delete_by_document(user, doc) removes exactly the records of the
\* user's collection whose payload document_id is doc: the other records of
\* that collection, every other user's records and the set of collections
\* stay as they were (and nothing is removed when the database fails).
C26_DeleteExactlyDocument ==
    [][(storeOps' = storeOps + 1 /\ deletion'.at = storeOps')
       => /\ collections' = collections
          /\ points' =
                IF deletion'.fault = "none"
                THEN [n \in DOMAIN points |->
                        IF n = get_collection_name(deletion'.user_id)
                        THEN {p \in points[n] :
                                 p.payload.document_id # deletion'.document_id}
                        ELSE points[n]]
                ELSE points]_vars

\* C26 witness: a delete removed a document's records from a collection that
\* keeps records of another document, while another user holds records of a
\* document with the same id.
C26_Witness ==
    LET name == get_collection_name(deletion.user_id)
    IN  /\ deletion.at = storeOps
        /\ deletion.fault = "none"
        /\ \E p \in deletion.before[name] : p.payload.document_id = deletion.document_id
        /\ points[name] # {}
        /\ \E n \in collections \ {name} :
              \E p \in points[n] : p.payload.document_id = deletion.document_id


\* C28: when a database call fails, the exposed operations return a value
\* and do not raise; get_ingestion_stats in particular does not raise, and it
\* reports the "not_created" placeholder only when the user's collection is
\* absent.
C28_TypedResults ==
    /\ ~statsV.raised
    /\ (statsV.op = "stats" /\ statsV.at = storeOps /\ statsV.status = "not_created")
          => get_collection_name(statsV.user_id) \notin collections


\* C25: search, retrieval, statistics, health checks and the steps of an
\* ingestion before its upsert change neither the set of collections nor any
\* stored record; a collection appears only in an upsert and disappears only
\* in delete_collection.
C25_StoreFrame ==
    [][/\ (collections' # collections \/ points' # points)
           => /\ storeRet'.op \in {"upsert", "delete_collection", "delete_by_document"}
              /\ (storeOps' = storeOps + 1 \/ pcI = "store")
       /\ (\/ pcV' # pcV
           \/ statsV' # statsV
           \/ (pcI' # pcI /\ pcI # "store")
           \/ (storeOps' = storeOps + 1 /\ storeRet'.op = "search"))
           => UNCHANGED <<collections, points>>
       /\ ~(collections' \subseteq collections) => storeRet'.op = "upsert"
       /\ ~(collections \subseteq collections') => storeRet'.op = "delete_collection"
      ]_vars

\* An ingestion has failed before its upsert for a user who has no
\* collection, and none was created.
C25_Witness ==
    /\ pcI = "done"
    /\ ~ingestion.success
    /\ storeRet.op = "none"
    /\ get_collection_name(callI.user_id) \notin collections


\* C22: whenever the delete route answers "deleted" for a document, the
\* document's record is gone and the owner's collection holds no vector
\* tagged with that document id; when the vectors could not be removed the
\* record is kept.
C22_DeleteRemovesVectors ==
    (httpV.route = "delete" /\ httpV.code = 200)
        => /\ records[httpV.document_id].status = Absent
           /\ DocumentPoints(points, httpV.user_id, httpV.document_id) = {}


\* C30: a record is created with status PROCESSING; when the upload request
\* has finished the record is INGESTED exactly when the ingestion result was
\* successful and the document's vectors are in the store, and FAILED
\* otherwise; only the upload being served has a PROCESSING record, and a
\* record never goes from INGESTED or FAILED back to PROCESSING.
C30_UploadLifecycle ==
    /\ [](/\ \A d \in Docs :
                records[d].status = PROCESSING
                    => pcU \in {"ingesting", "raised"} /\ callI.document_id = d
          /\ (pcU = "idle" /\ httpV.route = "upload" /\ httpV.code \in {200, 500})
                => LET d == httpV.document_id
                   IN  /\ records[d].status \in {INGESTED, FAILED}
                       /\ records[d].status = INGESTED
                             <=> /\ ingestion.success
                                 /\ ingestion.document_id = d
                                 /\ DocumentPoints(points, httpV.user_id, d) # {})
    /\ [][\A d \in Docs :
            /\ (records[d].status = Absent /\ records'[d].status # Absent)
                  => records'[d].status = PROCESSING
            /\ records[d].status \in {INGESTED, FAILED}
                  => records'[d].status # PROCESSING]_vars

\* Two uploads have finished, one ingested with its vectors stored and one
\* failed.
C30_Witness ==
    /\ pcU = "idle"
    /\ httpV.route = "upload"
    /\ \E d \in Docs, e \in Docs :
          /\ records[d].status = INGESTED
          /\ DocumentPoints(points, records[d].user_id, d) # {}
          /\ records[e].status = FAILED


\* C27: every record written by an ingestion carries the embedding of its
\* own chunk's text, that chunk's index as chunk_index and the id
\* '{document_id}_{chunk_index}'; the ids are pairwise distinct and there is
\* exactly one record per chunk whose embedding is not empty, whichever
\* batches failed.
C27_PositionalPairing ==
    (pcI = "done" /\ ingestion.success /\ firstI = {})
        => LET ps == points[get_collection_name(callI.user_id)]
               doc == DocumentId(callI.document_id)
               valid == ValidEmbeddings(embeddingsI)
           IN  /\ \A p \in ps :
                     \E j \in valid :
                        /\ p.payload.text = chunksI[j].text
                        /\ p.payload.chunk_index = chunksI[j].chunk_index
                        /\ p.vector = Embed(Strip(chunksI[j].text))
                        /\ p.id = ChunkId(doc, chunksI[j].chunk_index)
               /\ \A p \in ps : \A q \in ps : p.id = q.id => p = q
               /\ Cardinality(ps) = Cardinality(valid)

\* An ingestion of three chunks in two batches has succeeded although the
\* first batch failed and one of its chunks was dropped.
C27_Witness ==
    /\ pcI = "done"
    /\ ingestion.success
    /\ firstI = {}
    /\ Len(chunksI) = 3
    /\ failedBatches # {}
    /\ ValidEmbeddings(embeddingsI) = {2, 3}


\* The id and the text, chunk_index and page_number payload fields of the
\* records in ps.
RecordIdentity(ps) ==
    {[id |-> p.id, text |-> p.payload.text, chunk_index |-> p.payload.chunk_index,
      page_number |-> p.payload.page_number] : p \in ps}

\* C29: ingesting the same pages a second time for the same user with the
\* same document_id, every embedding succeeding both times, leaves the
\* user's collection with the same record ids and the same text,
\* chunk_index and page_number as after the first ingestion, and with no
\* additional record.
C29_ReingestIdempotent ==
    (/\ pcI = "done"
     /\ firstI # {}
     /\ ingestion.success
     /\ ValidEmbeddings(embeddingsI) = DOMAIN chunksI)
        => LET ps == points[get_collection_name(callI.user_id)]
           IN  /\ RecordIdentity(ps) = RecordIdentity(firstI)
               /\ Cardinality(ps) = Cardinality(firstI)

\* A document of several chunks has been ingested twice, every embedding
\* succeeding both times.
C29_Witness ==
    /\ pcI = "done"
    /\ firstI # {}
    /\ ingestion.success
    /\ Len(chunksI) > 1
    /\ ValidEmbeddings(embeddingsI) = DOMAIN chunksI

====
